---- MODULE Spec2Model ----
(***************************************************************************)
(* Lineage forest and sliding-window annealing driver of CellUniverse      *)
(* (src/global_optimization.py), with the bacillus operations it uses.     *)
(*                                                                         *)
(* Lengths and coordinates are integers in ticks (Units.pixel per pixel),   *)
(* so that the halves and quarters taken by split and combine stay exact.  *)
(* A rotation is an integer number of quarter turns.  A split ratio alpha  *)
(* is an integer number of tenths.                                         *)
(***************************************************************************)
EXTENDS Integers, Sequences, FiniteSets, TLC

\* the scale of the model's integers: ticks per pixel
Units == [pixel |-> 40]

(***************************************************************************)
(* Names.  A cell name is a sequence of characters; name[:-1] drops the    *)
(* last one (and maps the empty name to itself).                           *)
(***************************************************************************)
DropLast(name) == IF Len(name) = 0 THEN name ELSE SubSeq(name, 1, Len(name) - 1)

NameA == <<"A">>
NameB == <<"B">>

(***************************************************************************)
(* Bacilli: the constructor.  split_alpha is NoAlpha on a cell that no     *)
(* split produced.  opacity, in thousandths, is the attribute that          *)
(* check_constraints reads; no Change modifies it.                         *)
(***************************************************************************)
NoAlpha == 0

Bacilli(name, x, y, width, length, rotation, split_alpha) ==
    [name |-> name, x |-> x, y |-> y, width |-> width, length |-> length,
     rotation |-> rotation, split_alpha |-> split_alpha, opacity |-> 1000]

\* (cos, sin) of a rotation given in quarter turns
Cos(r) == CASE r % 4 = 0 -> 1 [] r % 4 = 1 -> 0 [] r % 4 = 2 -> -1 [] OTHER -> 0
Sin(r) == CASE r % 4 = 0 -> 0 [] r % 4 = 1 -> 1 [] r % 4 = 2 -> 0 [] OTHER -> -1

Abs(n) == IF n < 0 THEN -n ELSE n
Sgn(n) == IF n < 0 THEN -1 ELSE IF n > 0 THEN 1 ELSE 0

(***************************************************************************)
(* Bacilli.split(alpha): alpha in tenths.  cell1 is the head half, cell2   *)
(* the tail half.  As in src/cell.py the children are plain Bacilli and    *)
(* carry no split_alpha.                                                   *)
(***************************************************************************)
split(c, alpha) ==
    LET dx == Cos(c.rotation)
        dy == Sin(c.rotation)
        \* position1 = (front + center)/2 = position + (1 - alpha)/2 * unit
        off1 == (c.length * (10 - alpha)) \div 20
        \* position2 = (center + back)/2 = position - alpha/2 * unit
        off2 == (c.length * alpha) \div 20
    IN  << Bacilli(Append(c.name, "0"), c.x + off1 * dx, c.y + off1 * dy,
                   c.width, (c.length * alpha) \div 10, c.rotation, NoAlpha),
           Bacilli(Append(c.name, "1"), c.x - off2 * dx, c.y - off2 * dy,
                   c.width, (c.length * (10 - alpha)) \div 10, c.rotation, NoAlpha) >>

(***************************************************************************)
(* The split the lineage code relies on: the same halves, each carrying    *)
(* the alpha of the division as split_alpha (spec 4.D).                    *)
(***************************************************************************)
split_keeping_alpha(c, alpha) ==
    LET s == split(c, alpha)
    IN  << [s[1] EXCEPT !.split_alpha = alpha], [s[2] EXCEPT !.split_alpha = alpha] >>

(***************************************************************************)
(* Bacilli.combine(other).  The separation of the two centres gives the    *)
(* long axis; the model computes it for separations along one image axis   *)
(* (the off-axis component is dropped otherwise).  Coincident centres      *)
(* (CombineDegenerate) divide the zero separation by its zero norm.        *)
(***************************************************************************)
\* a faulty combine, which puts the combined cell midway between the two centres
combine_midway(c1, c2) ==
    Bacilli(DropLast(c1.name), (c1.x + c2.x) \div 2, (c1.y + c2.y) \div 2,
            (c1.width + c2.width) \div 2, c1.length + c2.length, c1.rotation, NoAlpha)

CombineDegenerate(c1, c2) == c1.x = c2.x /\ c1.y = c2.y

combine(c1, c2) ==
    LET sx == c1.x - c2.x
        sy == c1.y - c2.y
        alongX == Abs(sx) >= Abs(sy)
        ux == IF alongX THEN Sgn(sx) ELSE 0
        uy == IF alongX THEN 0 ELSE Sgn(sy)
        sep == IF alongX THEN Abs(sx) ELSE Abs(sy)
        \* |direction_i @ direction| for a rotation in quarter turns
        par1 == Abs(Cos(c1.rotation) * ux + Sin(c1.rotation) * uy)
        par2 == Abs(Cos(c2.rotation) * ux + Sin(c2.rotation) * uy)
        \* (extent - position) @ direction, twice
        f1 == (c1.length - c1.width) * par1 + c1.width
        f2 == (c2.length - c2.width) * par2 + c2.width
        \* front = position1 + f1/2 * direction, back = position2 - f2/2 * direction
        frontx == 2 * c1.x + f1 * ux
        fronty == 2 * c1.y + f1 * uy
        backx == 2 * c2.x - f2 * ux
        backy == 2 * c2.y - f2 * uy
        rot == IF ux = 1 THEN 0 ELSE IF uy = 1 THEN 1 ELSE IF ux = -1 THEN 2 ELSE -1
    IN  Bacilli(DropLast(c1.name),
                (frontx + backx) \div 4, (fronty + backy) \div 4,
                (c1.width + c2.width) \div 2,
                (2 * sep + f1 + f2) \div 2,
                rot, NoAlpha)

(***************************************************************************)
(* check_constraints(config, imageshape, cells, pairs)                     *)
(***************************************************************************)
\* a faulty cell loop, which tests the centre only
CellOkCentreOnly(config, imageshape, c) ==
    0 <= c.x /\ c.x < imageshape[2] /\ 0 <= c.y /\ c.y < imageshape[1]

CellOk(config, imageshape, c) ==
    /\ 0 <= c.x /\ c.x < imageshape[2] /\ 0 <= c.y /\ c.y < imageshape[1]
    /\ ~(c.width < config.minWidth \/ c.width > config.maxWidth)
    /\ config.minLength < c.length /\ c.length < config.maxLength
    /\ ~(config.image_type = "graySynthetic" /\ c.opacity < 0)

\* sqrt(np.sum(position1 - position2) ** 2): the components are summed, then squared
Displacement(c1, c2) == Abs((c1.x - c2.x) + (c1.y - c2.y))

\* a faulty pair loop, whose lower growth test is the wrong way round
PairOkFlippedGrowth(config, pr) ==
    /\ ~(Displacement(pr[1], pr[2]) * config.framesPerSecond > config.maxSpeed)
    /\ ~(Abs(pr[2].rotation - pr[1].rotation) * config.framesPerSecond > config.maxSpin)
    /\ config.minGrowth > pr[2].length - pr[1].length
    /\ pr[2].length - pr[1].length < config.maxGrowth

PairOk(config, pr) ==
    /\ ~(Displacement(pr[1], pr[2]) * config.framesPerSecond > config.maxSpeed)
    /\ ~(Abs(pr[2].rotation - pr[1].rotation) * config.framesPerSecond > config.maxSpin)
    /\ config.minGrowth < pr[2].length - pr[1].length
    /\ pr[2].length - pr[1].length < config.maxGrowth

check_constraints(config, imageshape, cells, pairs) ==
    /\ \A i \in 1..Len(cells) : CellOk(config, imageshape, cells[i])
    /\ \A i \in 1..Len(pairs) : PairOk(config, pairs[i])

(***************************************************************************)
(* The lineage.  A node is identified by <<frame, name, j>>: the frame it  *)
(* was created for, its cell's name, and j telling apart nodes created for *)
(* the same frame and name.  None is the absent node or frame.             *)
(*   lin.nodes[id]  = [cell, parent, children]        (CellNodeM)          *)
(*   lin.frames[k+1] = [node_map, prev, simulation_config]  (FrameM, k>=0) *)
(***************************************************************************)
None == << >>

\* the absent frame (FrameM.prev of the first frame) and the unassigned frame_index
NoFrame == -1

CellNodeM(cell, parent) == [cell |-> cell, parent |-> parent, children |-> << >>]

FrameM(simulation_config, prev) ==
    [node_map |-> << >>, prev |-> prev, simulation_config |-> simulation_config]

LineageM(simulation_config) ==
    [frames |-> << FrameM(simulation_config, NoFrame) >>, nodes |-> << >>]

\* a fresh node identity for frame k and name
NewId(nodes, k, name) ==
    << k, name, CHOOSE j \in 1..(Cardinality(DOMAIN nodes) + 1) :
                   /\ << k, name, j >> \notin DOMAIN nodes
                   /\ \A i \in 1..(j - 1) : << k, name, i >> \in DOMAIN nodes >>

\* f with f[key] = val
Put(f, key, val) == (key :> val) @@ f

\* del f[key]
Del(f, key) == [x \in DOMAIN f \ {key} |-> f[x]]

\* frame.nodes: list(node_map.values()), in an order the model fixes
RECURSIVE SetToSeq(_)
SetToSeq(S) ==
    IF S = {} THEN << >>
    ELSE LET x == CHOOSE y \in S : TRUE IN << x >> \o SetToSeq(S \ {x})

FrameNodes(frame) == SetToSeq({frame.node_map[n] : n \in DOMAIN frame.node_map})

\* CellNodeM.grandchildren
RECURSIVE Flatten(_)
Flatten(ss) == IF ss = << >> THEN << >> ELSE Head(ss) \o Flatten(Tail(ss))

grandchildren(nodes, id) ==
    Flatten([i \in 1..Len(nodes[id].children) |-> nodes[nodes[id].children[i]].children])

\* CellNodeM.make_child: the nodes afterwards, child being the new node's identity
make_child(nodes, id, child, cell) ==
    Put([nodes EXCEPT ![id].children = Append(@, child)], child, CellNodeM(cell, id))

(***************************************************************************)
(* FrameM.add_cell(cell) on frame k of the lineage                         *)
(***************************************************************************)
\* a faulty add_cell, which never looks up the name minus its last character
add_cell_same_name_only(lin, k, cell) ==
    LET frame == lin.frames[k + 1]
        prev == IF frame.prev = NoFrame THEN None ELSE lin.frames[frame.prev + 1]
        child == NewId(lin.nodes, k, cell.name)
        register(nodes) ==
            [lin EXCEPT !.nodes = nodes,
                        !.frames[k + 1].node_map = Put(@, cell.name, child)]
    IN  IF cell.name \in DOMAIN frame.node_map
        THEN [lin EXCEPT !.nodes[frame.node_map[cell.name]].cell = cell]
        ELSE IF prev # None /\ cell.name \in DOMAIN prev.node_map
        THEN register(make_child(lin.nodes, prev.node_map[cell.name], child, cell))
        ELSE register(Put(lin.nodes, child, CellNodeM(cell, None)))

add_cell(lin, k, cell) ==
    LET frame == lin.frames[k + 1]
        prev == IF frame.prev = NoFrame THEN None ELSE lin.frames[frame.prev + 1]
        child == NewId(lin.nodes, k, cell.name)
        register(nodes) ==
            [lin EXCEPT !.nodes = nodes,
                        !.frames[k + 1].node_map = Put(@, cell.name, child)]
    IN  IF cell.name \in DOMAIN frame.node_map
        THEN [lin EXCEPT !.nodes[frame.node_map[cell.name]].cell = cell]
        ELSE IF prev # None /\ cell.name \in DOMAIN prev.node_map
        THEN register(make_child(lin.nodes, prev.node_map[cell.name], child, cell))
        ELSE IF prev # None /\ DropLast(cell.name) \in DOMAIN prev.node_map
        THEN register(make_child(lin.nodes, prev.node_map[DropLast(cell.name)], child, cell))
        ELSE register(Put(lin.nodes, child, CellNodeM(cell, None)))

\* LineageM.forward
forward(lin) ==
    LET last == Len(lin.frames)
    IN  [lin EXCEPT !.frames =
            Append(@, FrameM(lin.frames[last].simulation_config, last - 1))]

\* LineageM.copy_forward
RECURSIVE AddCells(_, _, _)
AddCells(lin, k, cells) ==
    IF cells = << >> THEN lin
    ELSE AddCells(add_cell(lin, k, Head(cells)), k, Tail(cells))

\* a faulty copy_forward, which copies the cells of the first frame
copy_forward_first_frame(lin) ==
    LET fwd == forward(lin)
        last == Len(fwd.frames)
        src == FrameNodes(fwd.frames[1])
    IN  AddCells(fwd, last - 1, [i \in 1..Len(src) |-> fwd.nodes[src[i]].cell])

copy_forward(lin) ==
    LET fwd == forward(lin)
        last == Len(fwd.frames)
        src == FrameNodes(fwd.frames[last - 1])
    IN  AddCells(fwd, last - 1, [i \in 1..Len(src) |-> fwd.nodes[src[i]].cell])

\* LineageM.count_cells_in(start, end)
RECURSIVE Sum(_)
Sum(ss) == IF ss = << >> THEN 0 ELSE Head(ss) + Sum(Tail(ss))

ClampStart(start) == IF start < 0 THEN 0 ELSE start
ClampEnd(lin, end) == IF end > Len(lin.frames) THEN Len(lin.frames) ELSE end

count_cells_in(lin, start, end) ==
    LET s == ClampStart(start)
        e == ClampEnd(lin, end)
    IN  Sum([i \in 1..(IF e > s THEN e - s ELSE 0) |->
                Cardinality(DOMAIN lin.frames[s + i].node_map)])

\* the nodes a registered node can reach; the others are garbage
RECURSIVE Closure(_, _)
Closure(nodes, S) ==
    LET next == S \cup { nodes[id].parent : id \in { i \in S : nodes[i].parent # None } }
                  \cup UNION { { nodes[id].children[i] : i \in 1..Len(nodes[id].children) }
                               : id \in S }
    IN  IF next = S THEN S ELSE Closure(nodes, next)

Registered(lin) ==
    UNION { { lin.frames[k].node_map[n] : n \in DOMAIN lin.frames[k].node_map }
            : k \in 1..Len(lin.frames) }

Collect(lin) ==
    LET live == Closure(lin.nodes, Registered(lin))
    IN  [lin EXCEPT !.nodes = [id \in live |-> lin.nodes[id]]]

\* LineageM.choose_random_frame_index(start, end) for a drawn threshold;
\* NoFrame stands for the RuntimeError after the loop
RECURSIVE FrameAtThreshold(_, _, _, _)
FrameAtThreshold(lin, i, end, threshold) ==
    IF i >= end THEN NoFrame
    ELSE LET n == Cardinality(DOMAIN lin.frames[i + 1].node_map)
         IN  IF n > threshold THEN i
             ELSE FrameAtThreshold(lin, i + 1, end, threshold - n)

\* the indexes choose_random_frame_index can return: int(random.random() * count)
\* is any of 0 .. count-1, and 0 when count is 0
\* a faulty draw, whose threshold can reach the number of cells
choose_random_frame_index_inclusive(lin, start, end) ==
    LET count == count_cells_in(lin, start, end)
    IN  { FrameAtThreshold(lin, ClampStart(start), ClampEnd(lin, end), t) : t \in 0..count }

choose_random_frame_index(lin, start, end) ==
    LET count == count_cells_in(lin, start, end)
        thresholds == IF count = 0 THEN {0} ELSE 0..(count - 1)
    IN  { FrameAtThreshold(lin, ClampStart(start), ClampEnd(lin, end), t) : t \in thresholds }

(***************************************************************************)
(* Images.  A synth image is its background level and the multiset of      *)
(* cell shapes drawn on it (shape -> how many times, negative when a shape *)
(* was erased more often than drawn); a cell map is such a multiset.       *)
(***************************************************************************)
Shape(c) == << c.x, c.y, c.width, c.length, c.rotation >>

is_cell == TRUE
is_background == FALSE

EmptyMap == << >>

\* the multiset with one more (polarity is_cell) or one less copy of the shape
DrawOn(cells, c, polarity) ==
    LET sh == Shape(c)
        old == IF sh \in DOMAIN cells THEN cells[sh] ELSE 0
        new == IF polarity = is_cell THEN old + 1 ELSE old - 1
    IN  IF new = 0 THEN Del(cells, sh) ELSE Put(Del(cells, sh), sh, new)

\* cell.draw(synthimage, cellmap, polarity, simulation_config)
draw(img, c, polarity) ==
    [synth |-> [img.synth EXCEPT !.cells = DrawOn(@, c, polarity)],
     cellmap |-> DrawOn(img.cellmap, c, polarity)]

RECURSIVE DrawAll(_, _)
DrawAll(img, cells) ==
    IF cells = << >> THEN img ELSE DrawAll(draw(img, Head(cells), is_cell), Tail(cells))

\* optimization.generate_synthetic_image(nodes, shape, simulation_config)
generate_synthetic_image(lin, ids, simulation_config) ==
    DrawAll([synth |-> [background |-> IF simulation_config.image_type = "graySynthetic"
                                       THEN simulation_config.background_color ELSE 0,
                        cells |-> EmptyMap],
             cellmap |-> EmptyMap],
            [i \in 1..Len(ids) |-> lin.nodes[ids[i]].cell])

(***************************************************************************)
(* The state of one call of the driver optimize(...).                      *)
(***************************************************************************)
VARIABLES
    args,           \* the call: in_auto_temp_schedule, const_temp, start_temp, end_temp,
                    \* iteration_per_cell, config (the configuration file, lengths in
                    \* ticks), images (len(realimages)), shape (realimages[0].shape as
                    \* (rows, columns), in ticks), colony (lineageframes.latest)
    lineage,        \* lineage: [frames, nodes]
    synthimages,    \* synthimages
    cellmaps,       \* cellmaps
    pc,             \* where optimize is: "window" (top of the window loop body),
                    \* "anneal" (top of the iteration loop), "decide" (line 643),
                    \* "done" (returned after save_output), "returned" (returned pbad),
                    \* "raised" (left by an exception)
    window_start,
    run_count,
    iteration,
    bad_count,
    pbad_total,
    frame_index,    \* NoFrame until the first iteration assigns it
    change,         \* the Change of the running iteration: [obj, costdiff, acceptance]
    applied,        \* how often apply() of the last constructed Change was called
    outputs,        \* the image files written, in order
    result,         \* the value returned in auto-temp mode: << pbad_total, bad_count >>
    error           \* the exception that ended the run

vars == << args, lineage, synthimages, cellmaps, pc, window_start, run_count, iteration,
           bad_count, pbad_total, frame_index, change, applied, outputs, result, error >>

Config == args.config
ImageShape == args.shape
NImages == args.images

(***************************************************************************)
(* Change objects.  A change is the record                                 *)
(*   kind     "none" (change = None), "perturbation", "split", "combine",  *)
(*            "background_offset"                                          *)
(*   node     the node handed to the constructor, frame its frame index    *)
(*   new      the cells it built: <<replacement_cell>>, <<s1, s2>>,        *)
(*            <<combination>> or << >>                                     *)
(*   newbg    new_simulation_config["background.color"]                    *)
(*   raises   constructing it or evaluating is_valid raises                *)
(*   valid    the value of is_valid                                        *)
(***************************************************************************)
NoChange ==
    [kind |-> "none", node |-> None, frame |-> NoFrame, new |-> << >>, newbg |-> 0,
     raises |-> FALSE, valid |-> FALSE]

\* the size of the increment random.gauss adds, per attribute, in ticks (quarter
\* turns); a sample is the increment's sign per selected attribute
\* the size of the increment random.gauss(mu, sigma) draws for each attribute
Step == args.step

Signs == {-1, 1}

Attributes == {"x", "y", "width", "length", "rotation"}

\* the target cell with the selected attributes S moved by the increments d
Perturbed(cell, S, d) ==
    [cell EXCEPT !.x = IF "x" \in S THEN @ + d["x"] * Step.x ELSE @,
                 !.y = IF "y" \in S THEN @ + d["y"] * Step.y ELSE @,
                 !.width = IF "width" \in S THEN @ + d["width"] * Step.width ELSE @,
                 !.length = IF "length" \in S THEN @ + d["length"] * Step.length ELSE @,
                 !.rotation = IF "rotation" \in S THEN @ + d["rotation"] * Step.rotation ELSE @]

\* the pair of a list of halves whose name is the cell's, if any
Matching(halves, c, halfFirst) ==
    IF c.name = halves[1].name
    THEN << IF halfFirst THEN << halves[1], c >> ELSE << c, halves[1] >> >>
    ELSE IF c.name = halves[2].name
    THEN << IF halfFirst THEN << halves[2], c >> ELSE << c, halves[2] >> >>
    ELSE << >>

(***************************************************************************)
(* Perturbation.get_checks.  The list is built on the first call and kept: *)
(* the pairs hold the replacement cell itself (repl, whatever it is now),  *)
(* but the halves of its split are those of the sample of the first call   *)
(* (first).                                                                *)
(***************************************************************************)
PerturbationChecksRaise(nodes, id) ==
    LET node == nodes[id]
    IN  \/ /\ node.parent # None
           /\ Len(nodes[node.parent].children) = 2
           /\ node.cell.split_alpha = NoAlpha
        \/ /\ Len(node.children) = 2
           /\ nodes[node.children[1]].cell.split_alpha = NoAlpha

PerturbationChecks(nodes, id, first, repl) ==
    LET node == nodes[id]
        parent == nodes[node.parent]
        parentPairs ==
            IF node.parent = None THEN << >>
            ELSE IF Len(parent.children) = 1 THEN << << parent.cell, repl >> >>
            ELSE IF Len(parent.children) = 2
            THEN LET h == split_keeping_alpha(parent.cell, node.cell.split_alpha)
                 IN  IF h[1].name = repl.name THEN << << h[1], repl >> >>
                     ELSE IF h[2].name = repl.name THEN << << h[2], repl >> >>
                     ELSE << >>
            ELSE << >>
        childPairs ==
            IF Len(node.children) = 1
            THEN << << repl, nodes[node.children[1]].cell >> >>
            ELSE IF Len(node.children) = 2
            THEN LET h == split_keeping_alpha(first, nodes[node.children[1]].cell.split_alpha)
                 IN  Flatten([i \in 1..2 |-> Matching(h, nodes[node.children[i]].cell, TRUE)])
            ELSE << >>
    IN  parentPairs \o childPairs

\* Perturbation.is_valid for the current replacement
PerturbationValid(nodes, id, first, repl) ==
    check_constraints(Config, ImageShape, << repl >>, PerturbationChecks(nodes, id, first, repl))

\* badcount < 50: the sampling attempts of one Perturbation
MaxAttempts == 50

(***************************************************************************)
(* Perturbation.__init__ and the is_valid the driver reads.  The selected  *)
(* attributes S are drawn once; every attempt draws fresh increments.      *)
(* The loop ends at the first valid sample or after MaxAttempts attempts,  *)
(* so its outcome is fixed by the first sample d1 (valid, or the one the   *)
(* checks were built from) and the sample dl of the last attempt.          *)
(***************************************************************************)
Perturbation(lin, k, id, S, d1, dl) ==
    LET cell == lin.nodes[id].cell
        first == Perturbed(cell, S, d1)
        last == Perturbed(cell, S, dl)
        base == [NoChange EXCEPT !.kind = "perturbation", !.node = id, !.frame = k]
    IN  IF PerturbationChecksRaise(lin.nodes, id)
        THEN [base EXCEPT !.new = << first >>, !.raises = TRUE]
        ELSE IF PerturbationValid(lin.nodes, id, first, first) \/ MaxAttempts = 1
        THEN [base EXCEPT !.new = << first >>,
                          !.valid = PerturbationValid(lin.nodes, id, first, first)]
        ELSE [base EXCEPT !.new = << last >>,
                          !.valid = PerturbationValid(lin.nodes, id, first, last)]

Perturbations(lin, k, id, attrs) ==
    { Perturbation(lin, k, id, S, d1, dl) :
        << S, d1, dl >> \in
          UNION { { << T, a, b >> : a \in [T -> Signs], b \in [T -> Signs] }
                  : T \in (SUBSET attrs) \ { {} } } }

\* random.random()/5 + 2/5, in tenths
Alphas == {4, 5}

(***************************************************************************)
(* Split(node, ...): node is the parent of the selected node (None when    *)
(* the selected node has no parent), k the frame of its children.          *)
(***************************************************************************)
SplitChecks(nodes, id, s1, s2) ==
    LET p == split_keeping_alpha(nodes[id].cell, s1.split_alpha)
        gcs == grandchildren(nodes, id)
    IN  (IF p[1].name = s1.name THEN << << p[1], s1 >> >>
         ELSE IF p[1].name = s2.name THEN << << p[1], s2 >> >> ELSE << >>)
        \o (IF p[2].name = s1.name THEN << << p[2], s1 >> >>
            ELSE IF p[2].name = s2.name THEN << << p[2], s2 >> >> ELSE << >>)
        \o Flatten([i \in 1..Len(gcs) |-> Matching(<< s1, s2 >>, nodes[gcs[i]].cell, TRUE)])

\* line 429: one child, and not exactly one grandchild
SplitPlace(nodes, id) ==
    Len(nodes[id].children) = 1 /\ Len(grandchildren(nodes, id)) # 1

Split(lin, k, id, alpha) ==
    LET base == [NoChange EXCEPT !.kind = "split", !.node = id, !.frame = k]
        node == lin.nodes[id]
        s == split_keeping_alpha(lin.nodes[node.children[1]].cell, alpha)
    IN  IF id = None THEN [base EXCEPT !.raises = TRUE]
        ELSE IF Len(node.children) # 1 THEN base
        ELSE [base EXCEPT
                !.new = s,
                !.valid = /\ SplitPlace(lin.nodes, id)
                          /\ check_constraints(Config, ImageShape, s,
                                               SplitChecks(lin.nodes, id, s[1], s[2]))]

Splits(lin, k, id) == { Split(lin, k, id, alpha) : alpha \in Alphas }

(***************************************************************************)
(* Combination(node, ...): node is the parent of the selected node.        *)
(***************************************************************************)
CombinationChecks(nodes, id, combination) ==
    LET node == nodes[id]
        p == split_keeping_alpha(combination, nodes[node.children[1]].cell.split_alpha)
        gcs == grandchildren(nodes, id)
    IN  << << node.cell, combination >> >>
        \o Flatten([i \in 1..Len(gcs) |-> Matching(p, nodes[gcs[i]].cell, TRUE)])

Combination(lin, k, id) ==
    LET base == [NoChange EXCEPT !.kind = "combine", !.node = id, !.frame = k]
        node == lin.nodes[id]
        c1 == lin.nodes[node.children[1]].cell
        c2 == lin.nodes[node.children[2]].cell
        combination == combine(c1, c2)
    IN  IF id = None THEN [base EXCEPT !.raises = TRUE]
        ELSE IF Len(node.children) # 2 THEN base
        ELSE IF Len(grandchildren(lin.nodes, id)) > 2
        THEN [base EXCEPT !.new = << combination >>]
        ELSE IF c1.split_alpha = NoAlpha
        THEN [base EXCEPT !.new = << combination >>, !.raises = TRUE]
        ELSE IF CombineDegenerate(c1, c2)
        THEN [base EXCEPT !.new = << combination >>]
        ELSE [base EXCEPT
                !.new = << combination >>,
                !.valid = check_constraints(Config, ImageShape, << combination >>,
                                            CombinationChecks(lin.nodes, id, combination))]

(***************************************************************************)
(* BackGround_luminosity_offset(frame, ...)                                *)
(***************************************************************************)
\* the increments random.gauss can add to background.color
Offsets == args.offsets

BackGround_luminosity_offset(lin, k, offset) ==
    [NoChange EXCEPT
        !.kind = "background_offset", !.frame = k,
        !.newbg = lin.frames[k + 1].simulation_config.background_color + offset,
        !.valid = lin.frames[k + 1].simulation_config.background_color > 0]

(***************************************************************************)
(* apply().  st = [lineage, synthimages, cellmaps]; the result has the     *)
(* same fields and raised, TRUE when the call raises.                      *)
(***************************************************************************)
ImageOf(st, k) == [synth |-> st.synthimages[k + 1], cellmap |-> st.cellmaps[k + 1]]

WithImage(st, k, img) ==
    [st EXCEPT !.synthimages[k + 1] = img.synth, !.cellmaps[k + 1] = img.cellmap]

Applied(st) ==
    [lineage |-> Collect(st.lineage), synthimages |-> st.synthimages,
     cellmaps |-> st.cellmaps, raised |-> FALSE]

\* the state itself, when nothing is applied
Kept(st) ==
    [lineage |-> st.lineage, synthimages |-> st.synthimages,
     cellmaps |-> st.cellmaps, raised |-> FALSE]

Raised(st) ==
    [lineage |-> st.lineage, synthimages |-> st.synthimages,
     cellmaps |-> st.cellmaps, raised |-> TRUE]

PerturbationApply(st, ch) ==
    LET k == ch.frame
        old == st.lineage.nodes[ch.node].cell
        img == draw(draw(ImageOf(st, k), old, is_background), ch.new[1], is_cell)
    IN  Applied([WithImage(st, k, img) EXCEPT !.lineage = add_cell(@, k, ch.new[1])])

\* gc.parent = s_node; s_node.children = [gc], for each grandchild named like s
RECURSIVE Reparent(_, _, _, _)
Reparent(nodes, gcs, names, ids) ==
    IF gcs = << >> THEN nodes
    ELSE LET gc == Head(gcs)
             nm == nodes[gc].cell.name
             to == IF nm = names[1] THEN ids[1]
                   ELSE IF nm = names[2] THEN ids[2] ELSE None
         IN  Reparent(IF to = None THEN nodes
                      ELSE [nodes EXCEPT ![gc].parent = to, ![to].children = << gc >>],
                      Tail(gcs), names, ids)

SplitApply(st, ch) ==
    LET k == ch.frame
        lin == st.lineage
        id == ch.node
        child == lin.nodes[id].children[1]
        s1 == ch.new[1]
        s2 == ch.new[2]
        img == draw(draw(draw(ImageOf(st, k), lin.nodes[child].cell, is_background),
                         s1, is_cell), s2, is_cell)
        gcs == grandchildren(lin.nodes, id)
        map1 == Del(lin.frames[k + 1].node_map, lin.nodes[child].cell.name)
        n0 == [lin.nodes EXCEPT ![id].children = << >>]
        id1 == NewId(n0, k, s1.name)
        n1 == make_child(n0, id, id1, s1)
        id2 == NewId(n1, k, s2.name)
        n2 == make_child(n1, id, id2, s2)
        map2 == Put(Put(map1, s1.name, id1), s2.name, id2)
        n3 == Reparent(n2, gcs, << s1.name, s2.name >>, << id1, id2 >>)
    IN  IF lin.nodes[child].cell.name \notin DOMAIN lin.frames[k + 1].node_map
        THEN Raised(WithImage(st, k, img))
        ELSE Applied([WithImage(st, k, img) EXCEPT
                         !.lineage.nodes = n3,
                         !.lineage.frames[k + 1].node_map = map2])

\* combination_node.children.append(gc); gc.parent = combination_node
RECURSIVE Adopt(_, _, _)
Adopt(nodes, gcs, to) ==
    IF gcs = << >> THEN nodes
    ELSE Adopt([nodes EXCEPT ![Head(gcs)].parent = to, ![to].children = Append(@, Head(gcs))],
               Tail(gcs), to)

CombinationApply(st, ch) ==
    LET k == ch.frame
        lin == st.lineage
        id == ch.node
        combination == ch.new[1]
        c1 == lin.nodes[id].children[1]
        c2 == lin.nodes[id].children[2]
        name1 == lin.nodes[c1].cell.name
        name2 == lin.nodes[c2].cell.name
        img0 == draw(ImageOf(st, k), combination, is_cell)
        img1 == draw(img0, lin.nodes[c1].cell, is_background)
        img2 == draw(img1, lin.nodes[c2].cell, is_background)
        gcs == grandchildren(lin.nodes, id)
        map0 == lin.frames[k + 1].node_map
        map1 == Del(Del(map0, name1), name2)
        n0 == [lin.nodes EXCEPT ![id].children = << >>]
        idc == NewId(n0, k, combination.name)
        n1 == make_child(n0, id, idc, combination)
        n2 == Adopt(n1, gcs, idc)
    IN  IF name1 \notin DOMAIN map0
        THEN Raised(WithImage(st, k, img0))
        ELSE IF name2 \notin DOMAIN Del(map0, name1)
        THEN Raised([WithImage(st, k, img1) EXCEPT
                        !.lineage.frames[k + 1].node_map = Del(map0, name1)])
        ELSE Applied([WithImage(st, k, img2) EXCEPT
                         !.lineage.nodes = n2,
                         !.lineage.frames[k + 1].node_map = Put(map1, combination.name, idc)])

BackgroundApply(st, ch) ==
    LET k == ch.frame
        lin == st.lineage
        new_simulation_config ==
            [lin.frames[k + 1].simulation_config EXCEPT !.background_color = ch.newbg]
        new_synthimage ==
            generate_synthetic_image(lin, FrameNodes(lin.frames[k + 1]), new_simulation_config).synth
    IN  Applied([st EXCEPT !.synthimages[k + 1] = new_synthimage,
                           !.lineage.frames[k + 1].simulation_config = new_simulation_config])

apply(st, ch) ==
    CASE ch.kind = "perturbation" -> PerturbationApply(st, ch)
      [] ch.kind = "split" -> SplitApply(st, ch)
      [] ch.kind = "combine" -> CombinationApply(st, ch)
      [] ch.kind = "background_offset" -> BackgroundApply(st, ch)

(***************************************************************************)
(* The driver optimize(...).                                               *)
(***************************************************************************)
\* optimization.split_proba(length) > 0: a uniform roll can fall below it
SplitProbaPositive(length) == 14 * Units.pixel < length /\ length <= 45 * Units.pixel

\* np.exp(-cost / temperature) for cost > 0, in thousandths, for the ratios that
\* occur: exp(-1), exp(-2), and 0.0 exactly once the ratio passes 745 (underflow)
ExpNeg(cost, temperature) ==
    CASE cost >= 746 * temperature -> 0
      [] cost = temperature -> 367
      [] cost = 2 * temperature -> 135

\* gerp(a, b, t) = a * (b / a) ** t, where the model can compute it: a = b
gerp(a, b) == a

\* the cost change of the redrawn region that costdiff finds (it depends on the
\* real image)
LocalCosts == {-1000, 1000}

\* random.random(), in thousandths
Rolls == {0, 367, 999}

State == [lineage |-> lineage, synthimages |-> synthimages, cellmaps |-> cellmaps]

Idle == [obj |-> NoChange, costdiff |-> 0, acceptance |-> 0]

\* build_initial_lineage
build_initial_lineage(simulation_config, colony) ==
    AddCells(LineageM(simulation_config), 0, colony)

(***************************************************************************)
(* The calls the model explores.                                           *)
(***************************************************************************)
CellA == Bacilli(NameA, 2000, 800, 400, 1600, 0, NoAlpha)
CellA0 == Bacilli(Append(NameA, "0"), 600, 800, 400, 1600, 0, NoAlpha)
CellB == Bacilli(NameB, 600, 800, 400, 800, 0, NoAlpha)
\* a cell of 60 pixels, the maxLength of the configurations
CellLong == Bacilli(NameB, 2000, 800, 400, 2400, 0, NoAlpha)

\* number of real images handed to the driver (len(realimages))
MaxImages == 3

\* iteration_per_cell, for a colony of one cell and for a colony of two
IterationsPerCell == 4
FewIterationsPerCell == 2

\* the configuration file: a cell keeps its length from one frame to the next
\* (growth strictly between -5 and 5 pixels), lengths in ticks
SteadyConfig ==
    [maxSpeed |-> 400, framesPerSecond |-> 1, maxSpin |-> 1,
     minGrowth |-> -200, maxGrowth |-> 200, minWidth |-> 200, maxWidth |-> 600,
     minLength |-> 700, maxLength |-> 2400, window_size |-> 2, split_cost |-> 1000]

\* the configuration file of a colony that may grow 10 pixels per frame
GrowingConfig == [SteadyConfig EXCEPT !.maxGrowth = 600]

\* the increments of a perturbation: 10 pixels, 5 pixels of width, a quarter turn
SmallStep == [x |-> 400, y |-> 400, width |-> 200, length |-> 400, rotation |-> 1]

\* length increments of 50 pixels, which no cell of the colonies survives
LargeStep == [SmallStep EXCEPT !.length = 2000]

Call(auto, temp, type, colony, config, step, iteration_per_cell) ==
    [in_auto_temp_schedule |-> auto, const_temp |-> temp, start_temp |-> temp,
     end_temp |-> temp, iteration_per_cell |-> iteration_per_cell,
     simulation |-> [image_type |-> type, background_color |-> 1],
     attributes |-> {"length"}, step |-> step, offsets |-> {-1},
     colony |-> colony, config |-> [image_type |-> type] @@ config,
     images |-> MaxImages, shape |-> << 1600, 4000 >>]

\* whole runs at a temperature so low that exp(-costdiff/temperature) is 0.0, and
\* temperature searches at a temperature of the order of the cost changes
Calls ==
    { Call(FALSE, 1, "binary", << CellA >>, SteadyConfig, SmallStep, IterationsPerCell),
      Call(FALSE, 1, "binary", << CellA, CellA0 >>, SteadyConfig, LargeStep, FewIterationsPerCell),
      Call(FALSE, 1, "graySynthetic", << CellA >>, SteadyConfig, LargeStep, IterationsPerCell),
      Call(TRUE, 1000, "binary", << CellA, CellB >>, GrowingConfig, SmallStep, IterationsPerCell),
      Call(FALSE, 1, "binary", << CellLong >>, SteadyConfig, LargeStep, IterationsPerCell) }

\* the locals of optimize before the window loop
Fresh ==
    /\ synthimages = << >>
    /\ cellmaps = << >>
    /\ run_count = 0
    /\ iteration = 0
    /\ bad_count = 0
    /\ pbad_total = 0
    /\ frame_index = NoFrame
    /\ change = Idle
    /\ applied = 0
    /\ outputs = << >>
    /\ result = None
    /\ error = ""

InitOf(call) ==
    /\ args = call
    /\ lineage = build_initial_lineage(call.simulation, call.colony)
    /\ pc = "window"
    /\ window_start = 1 - call.config.window_size
    /\ Fresh

Init == \E call \in Calls : InitOf(call)

Raise(exception) ==
    /\ pc' = "raised"
    /\ error' = exception

\* a faulty test, which extends the lineage at the first window too
ExtendsLineageAlways(window_end) == window_end <= NImages

\* lines 587-590: copy_forward is called
ExtendsLineage(window_end) == window_end <= NImages /\ window_end > 1

\* a faulty test, which writes output at every window
EmitsOutputAlways(ws) == TRUE

\* line 650
EmitsOutput(ws) == ws >= 0

\* lines 583-606: the top of the window loop body, up to the iteration loop
Extend ==
    /\ pc = "window"
    /\ LET window_end == window_start + Config.window_size
           extended == IF ExtendsLineage(window_end)
                       THEN copy_forward(lineage) ELSE lineage
           img == generate_synthetic_image(
                      extended, FrameNodes(extended.frames[Len(extended.frames)]),
                      extended.frames[Len(extended.frames)].simulation_config)
       IN  /\ lineage' = extended
           /\ synthimages' = IF window_end <= NImages
                             THEN Append(synthimages, img.synth) ELSE synthimages
           /\ cellmaps' = IF window_end <= NImages
                          THEN Append(cellmaps, img.cellmap) ELSE cellmaps
           /\ run_count' = (args.iteration_per_cell
                              * count_cells_in(extended, window_start, window_end))
                           \div Config.window_size
    /\ bad_count' = 0
    /\ iteration' = 0
    /\ pc' = "anneal"
    /\ UNCHANGED << args, window_start, pbad_total, frame_index, change, applied, outputs,
                    result, error >>

\* lines 618-630: the Change the iteration constructs for the selected node, for
\* each outcome of the random draws; NoChange is change = None
ProposedChanges(lin, k, id) ==
    LET node == lin.nodes[id]
    IN  \* "split", whether or not the roll falls below split_proba
        (IF SplitProbaPositive(node.cell.length) /\ k > 0
         THEN Splits(lin, k, node.parent) ELSE {})
        \cup { NoChange }
        \* "perturbation"
        \cup Perturbations(lin, k, id, args.attributes)
        \* "combine"
        \cup (IF k > 0 THEN { Combination(lin, k, node.parent) } ELSE {})
        \* "background_offset"
        \cup (IF k > 0 /\ args.simulation.image_type = "graySynthetic"
              THEN { BackGround_luminosity_offset(lin, k, offset) : offset \in Offsets }
              ELSE {})

\* lines 610-615
Temperature == IF args.in_auto_temp_schedule THEN args.const_temp
               ELSE gerp(gerp(args.end_temp, args.start_temp),
                         gerp(args.end_temp, args.start_temp))

\* Change.costdiff for the local cost change found
costdiff(ch, local) ==
    CASE ch.kind = "split" -> local + Config.split_cost
      [] ch.kind = "combine" -> local - Config.split_cost
      [] OTHER -> local

\* lines 636-641: << acceptance, bad_count, pbad_total >> after them
Acceptance(cost, temperature, bad, total) ==
    IF cost <= 0 THEN << 1000, bad, total >>
    ELSE << ExpNeg(cost, temperature), bad + 1, total + ExpNeg(cost, temperature) >>

\* a faulty test, which does not ask is_valid
PassesUnchecked(ch) == ch.kind # "none"

\* line 632: the iteration goes on to costdiff and the acceptance roll
Passes(ch) == ch.kind # "none" /\ ch.valid

\* a faulty costdiff of a Perturbation, which draws on the synth image and the
\* cell map themselves
EvaluatedInPlace(st, ch) ==
    IF ch.kind = "perturbation" /\ ch.valid
    THEN WithImage(st, ch.frame,
                   draw(draw(ImageOf(st, ch.frame), st.lineage.nodes[ch.node].cell,
                             is_background), ch.new[1], is_cell))
    ELSE st

\* the lineage and the images after a Change was constructed and its is_valid and
\* costdiff were read: the constructors copy what they modify (deepcopy, line 164;
\* simulation_config.copy(), line 494) and costdiff draws on copies of the synth
\* image and the cell map (lines 238-239, 336-337, 435-436)
Evaluated(st, ch) == st

\* a faulty test, which also accepts when the roll equals the acceptance
AcceptsAtLeast(acceptance, roll) == acceptance >= roll

\* line 643
Accepts(acceptance, roll) == acceptance > roll

\* lines 609-641: one iteration up to the acceptance roll
Propose ==
    /\ pc = "anneal"
    /\ iteration < run_count
    /\ \E fi \in choose_random_frame_index(lineage, window_start,
                                           window_start + Config.window_size) :
         IF fi = NoFrame
         THEN /\ Raise("RuntimeError")
              /\ UNCHANGED << frame_index, change, applied, bad_count, pbad_total,
                              iteration, lineage, synthimages, cellmaps >>
         ELSE IF ~args.in_auto_temp_schedule /\ run_count - 1 = 0
         THEN /\ Raise("ZeroDivisionError")
              /\ frame_index' = fi
              /\ UNCHANGED << change, applied, bad_count, pbad_total, iteration,
                              lineage, synthimages, cellmaps >>
         ELSE \E id \in { lineage.frames[fi + 1].node_map[n] :
                            n \in DOMAIN lineage.frames[fi + 1].node_map } :
              \E ch \in ProposedChanges(lineage, fi, id) :
              \E local \in LocalCosts :
                /\ frame_index' = fi
                /\ lineage' = Evaluated(State, ch).lineage
                /\ synthimages' = Evaluated(State, ch).synthimages
                /\ cellmaps' = Evaluated(State, ch).cellmaps
                /\ IF ch.raises
                   THEN /\ Raise("AttributeError")
                        /\ UNCHANGED << change, applied, bad_count, pbad_total, iteration >>
                   ELSE IF ~Passes(ch)
                   THEN /\ applied' = 0
                        /\ iteration' = iteration + 1
                        /\ UNCHANGED << change, bad_count, pbad_total, pc, error >>
                   ELSE LET a == Acceptance(costdiff(ch, local), Temperature,
                                            bad_count, pbad_total)
                        IN  /\ change' = [obj |-> ch, costdiff |-> costdiff(ch, local),
                                          acceptance |-> a[1]]
                            /\ applied' = 0
                            /\ bad_count' = a[2]
                            /\ pbad_total' = a[3]
                            /\ pc' = "decide"
                            /\ UNCHANGED << iteration, error >>
    /\ UNCHANGED << args, window_start, run_count, outputs, result >>

\* lines 643-644
Decide ==
    /\ pc = "decide"
    /\ \E roll \in Rolls :
         LET after == IF Accepts(change.acceptance, roll)
                      THEN apply(State, change.obj) ELSE Kept(State)
         IN  /\ lineage' = after.lineage
             /\ synthimages' = after.synthimages
             /\ cellmaps' = after.cellmaps
             /\ applied' = IF Accepts(change.acceptance, roll) THEN applied + 1 ELSE applied
             /\ IF after.raised
                THEN /\ Raise("KeyError")
                     /\ UNCHANGED iteration
                ELSE /\ pc' = "anneal"
                     /\ iteration' = iteration + 1
                     /\ UNCHANGED error
    /\ change' = Idle
    /\ UNCHANGED << args, window_start, run_count, bad_count, pbad_total, frame_index,
                    outputs, result >>

\* lines 645-668: after the iterations of a window
EndWindow ==
    /\ pc = "anneal"
    /\ iteration = run_count
    /\ IF args.in_auto_temp_schedule
       THEN /\ IF bad_count = 0
               THEN Raise("ZeroDivisionError") /\ UNCHANGED result
               ELSE pc' = "returned" /\ result' = << pbad_total, bad_count >>
                    /\ UNCHANGED error
            /\ UNCHANGED << window_start, outputs >>
       ELSE IF EmitsOutput(window_start) /\ frame_index = NoFrame
       THEN /\ Raise("UnboundLocalError")
            /\ UNCHANGED << window_start, outputs, result >>
       ELSE /\ outputs' = IF EmitsOutput(window_start)
                          THEN Append(outputs, [file |-> window_start,
                                                bestfit |-> window_start,
                                                overlay |-> frame_index,
                                                residual |-> window_start])
                          ELSE outputs
            /\ window_start' = window_start + 1
            /\ pc' = IF window_start + 1 < NImages THEN "window" ELSE "done"
            /\ UNCHANGED << result, error >>
    /\ UNCHANGED << args, lineage, synthimages, cellmaps, run_count, iteration, bad_count,
                    pbad_total, frame_index, change, applied >>

Next == Extend \/ Propose \/ Decide \/ EndWindow

Spec == Init /\ [][Next]_vars

(***************************************************************************)
(* The lineage classes on their own: a client that builds a lineage with   *)
(* add_cell, forward and copy_forward, starting from LineageM(...).        *)
(***************************************************************************)
\* the cells the client adds
CellPool == { CellA, CellA0, [CellA0 EXCEPT !.length = 1200] }

\* the client stops adding frames at this many
MaxFrames == 3

InitLineage ==
    /\ args = Call(FALSE, 1, "binary", << >>, SteadyConfig, SmallStep, IterationsPerCell)
    /\ lineage = LineageM(args.simulation)
    /\ pc = "lineage"
    /\ window_start = 0
    /\ Fresh

OnlyLineage ==
    UNCHANGED << args, synthimages, cellmaps, pc, window_start, run_count, iteration,
                 bad_count, pbad_total, frame_index, change, applied, outputs, result,
                 error >>

AddCellStep(k, cell) ==
    /\ pc = "lineage"
    /\ lineage' = add_cell(lineage, k, cell)
    /\ OnlyLineage

AddCell == \E k \in 0..(Len(lineage.frames) - 1), cell \in CellPool : AddCellStep(k, cell)

Forward ==
    /\ pc = "lineage"
    /\ Len(lineage.frames) < MaxFrames
    /\ lineage' = forward(lineage)
    /\ OnlyLineage

CopyForward ==
    /\ pc = "lineage"
    /\ Len(lineage.frames) < MaxFrames
    /\ lineage' = copy_forward(lineage)
    /\ OnlyLineage

NextLineage == AddCell \/ Forward \/ CopyForward

SpecLineage == InitLineage /\ [][NextLineage]_vars

(***************************************************************************)
(* Properties of the lineage classes.                                      *)
(***************************************************************************)
\* what add_cell(cell) on frame k must have done, read off the two lineages
AddCellContract(k, cell) ==
    LET frame == lineage.frames[k + 1]
        after == lineage'.frames[k + 1]
        nodes == lineage.nodes
        nodes2 == lineage'.nodes
        name == cell.name
        prevmap == IF frame.prev = NoFrame THEN << >>
                   ELSE lineage.frames[frame.prev + 1].node_map
        parent == IF name \in DOMAIN prevmap THEN prevmap[name]
                  ELSE IF DropLast(name) \in DOMAIN prevmap THEN prevmap[DropLast(name)]
                  ELSE None
    IN  /\ Len(lineage'.frames) = Len(lineage.frames)
        /\ \A i \in 1..Len(lineage.frames) : i # k + 1 => lineage'.frames[i] = lineage.frames[i]
        /\ after.prev = frame.prev
        /\ after.simulation_config = frame.simulation_config
        /\ name \in DOMAIN after.node_map
        /\ nodes2[after.node_map[name]].cell = cell
        /\ IF name \in DOMAIN frame.node_map
           THEN /\ after.node_map = frame.node_map
                /\ DOMAIN nodes2 = DOMAIN nodes
                /\ \A id \in DOMAIN nodes :
                     /\ nodes2[id].parent = nodes[id].parent
                     /\ nodes2[id].children = nodes[id].children
                     /\ id # frame.node_map[name] => nodes2[id] = nodes[id]
           ELSE LET new == after.node_map[name]
                IN  /\ new \notin DOMAIN nodes
                    /\ DOMAIN nodes2 = DOMAIN nodes \cup {new}
                    /\ DOMAIN after.node_map = DOMAIN frame.node_map \cup {name}
                    /\ \A n \in DOMAIN frame.node_map : after.node_map[n] = frame.node_map[n]
                    /\ nodes2[new].parent = parent
                    /\ nodes2[new].children = << >>
                    /\ parent # None =>
                         nodes2[parent] = [nodes[parent] EXCEPT !.children = Append(@, new)]
                    /\ \A id \in DOMAIN nodes : id # parent => nodes2[id] = nodes[id]

\* C1: add_cell(c) replaces the cell of the node registered under c.name and keeps
\* every parent and children list; when the name is not registered it registers a
\* new childless node holding c, made a child (appended last) of the previous
\* frame's node of the same name, else of its node named c.name minus the last
\* character, else a root; afterwards one node is registered under c.name, and
\* nothing else of the lineage has changed.
C1_AddCellContract ==
    [][\A k \in 0..(Len(lineage.frames) - 1), cell \in CellPool :
         AddCellStep(k, cell) => AddCellContract(k, cell)]_vars

\* a lineage where add_cell made A0 a child of the previous frame's A, replaced
\* its cell by a longer one, and made a root in a frame that has a previous frame
C1_Witness ==
    /\ pc = "lineage"
    /\ \E k \in 2..Len(lineage.frames) :
         LET map == lineage.frames[k].node_map
             A0 == Append(NameA, "0")
         IN  /\ A0 \in DOMAIN map
             /\ lineage.nodes[map[A0]].parent # None
             /\ lineage.nodes[lineage.nodes[map[A0]].parent].cell.name = NameA
             /\ lineage.nodes[map[A0]].cell.length = 1200
             /\ NameA \in DOMAIN map
             /\ lineage.nodes[map[NameA]].parent = None

\* what copy_forward() must have done, read off the two lineages
CopyForwardContract ==
    LET n == Len(lineage.frames)
        last == lineage.frames[n].node_map
        new == lineage'.frames[n + 1].node_map
        nodes == lineage.nodes
        nodes2 == lineage'.nodes
    IN  /\ Len(lineage'.frames) = n + 1
        /\ lineage'.frames[n + 1].prev = n - 1
        /\ \A i \in 1..n : lineage'.frames[i] = lineage.frames[i]
        /\ DOMAIN new = DOMAIN last
        /\ DOMAIN nodes2 = DOMAIN nodes \cup { new[name] : name \in DOMAIN new }
        /\ \A name \in DOMAIN new :
             /\ new[name] \notin DOMAIN nodes
             /\ nodes2[new[name]] = CellNodeM(nodes[last[name]].cell, last[name])
             /\ nodes2[last[name]] = [nodes[last[name]] EXCEPT !.children = Append(@, new[name])]
        /\ \A id \in DOMAIN nodes :
             id \notin { last[name] : name \in DOMAIN last } => nodes2[id] = nodes[id]

\* C4: copy_forward appends exactly one frame whose prev is the former last frame;
\* the new frame registers the same names as the former last frame, each new node
\* a child of the former last frame's node of that name and holding its cell
\* unchanged; no node map of an existing frame changes.
C4_CopyForwardContract == [][CopyForward => CopyForwardContract]_vars

\* a lineage whose last frame was copied from a frame holding two cells, one of
\* them not in the first frame
C4_Witness ==
    /\ pc = "lineage"
    /\ Len(lineage.frames) = MaxFrames
    /\ LET first == lineage.frames[1].node_map
           mid == lineage.frames[MaxFrames - 1].node_map
           new == lineage.frames[MaxFrames].node_map
       IN  /\ DOMAIN first # DOMAIN mid
           /\ Cardinality(DOMAIN mid) = 2
           /\ DOMAIN new = DOMAIN mid
           /\ \A name \in DOMAIN new :
                /\ lineage.nodes[new[name]].parent = mid[name]
                /\ lineage.nodes[new[name]].cell = lineage.nodes[mid[name]].cell

(***************************************************************************)
(* Properties of the driver: the shape of the lineage.                     *)
(***************************************************************************)
\* the identities of the nodes registered in frame k (k >= 0)
RegisteredIn(k) ==
    { lineage.frames[k + 1].node_map[n] : n \in DOMAIN lineage.frames[k + 1].node_map }

ChildrenOf(id) == { lineage.nodes[id].children[i] : i \in 1..Len(lineage.nodes[id].children) }

\* C2: parentless nodes are registered only in frame 0: a node registered in frame
\* k >= 1 has a parent registered in frame k-1 that lists it among its children;
\* and every child of a node registered in frame k-1 is registered in frame k
\* under the name of its cell.
C2_ParentsRegistered ==
    \A k \in 0..(Len(lineage.frames) - 1) :
      \A id \in RegisteredIn(k) :
        /\ k >= 1 =>
             /\ lineage.nodes[id].parent # None
             /\ lineage.nodes[id].parent \in RegisteredIn(k - 1)
             /\ id \in ChildrenOf(lineage.nodes[id].parent)
        /\ \A child \in ChildrenOf(id) :
             /\ k + 1 < Len(lineage.frames)
             /\ lineage.nodes[child].cell.name \in DOMAIN lineage.frames[k + 2].node_map
             /\ lineage.frames[k + 2].node_map[lineage.nodes[child].cell.name] = child

\* C3: a node has 0, 1 or 2 children; an only child has its parent's name; two
\* children are named n+'0' and n+'1', in this order; a node registered in a frame
\* that is not the last one has a child.
C3_ChildrenShape ==
    /\ \A id \in DOMAIN lineage.nodes :
         LET node == lineage.nodes[id]
             name(i) == lineage.nodes[node.children[i]].cell.name
         IN  /\ Len(node.children) <= 2
             /\ Len(node.children) = 1 => name(1) = node.cell.name
             /\ Len(node.children) = 2 =>
                  /\ name(1) = Append(node.cell.name, "0")
                  /\ name(2) = Append(node.cell.name, "1")
    /\ \A k \in 0..(Len(lineage.frames) - 2) :
         \A id \in RegisteredIn(k) : lineage.nodes[id].children # << >>

(***************************************************************************)
(* Properties of the driver: the window schedule and its outputs.          *)
(***************************************************************************)
Min(a, b) == IF a < b THEN a ELSE b
Max(a, b) == IF a > b THEN a ELSE b

WindowEnd == window_start + Config.window_size

\* the three lists have the length the window reached
LengthsFollowWindow ==
    pc \in {"anneal", "decide"} =>
      /\ Len(lineage.frames) = Min(WindowEnd, NImages)
      /\ Len(synthimages) = Min(WindowEnd, NImages)
      /\ Len(cellmaps) = Min(WindowEnd, NImages)

\* frames stay where they are, and the lists change length only at the top of a
\* window
FramesKept ==
    /\ Len(lineage'.frames) >= Len(lineage.frames)
    /\ \A i \in 1..Len(lineage.frames) : lineage'.frames[i].prev = lineage.frames[i].prev
    /\ pc # "window" =>
         /\ Len(lineage'.frames) = Len(lineage.frames)
         /\ Len(synthimages') = Len(synthimages)
         /\ Len(cellmaps') = Len(cellmaps)

\* C5 as stated: the frame list only grows; each window step with window_end <= N
\* adds exactly one frame, one synth image and one cell map; after the extension
\* the three lists have length min(window_end, N); the run ends with exactly N
\* frames.
C5_OneFrameEachStep ==
    /\ []LengthsFollowWindow
    /\ [][/\ FramesKept
          /\ pc = "window" /\ WindowEnd <= NImages =>
               /\ Len(lineage'.frames) = Len(lineage.frames) + 1
               /\ Len(synthimages') = Len(synthimages) + 1
               /\ Len(cellmaps') = Len(cellmaps) + 1]_vars
    /\ [](pc \in {"done", "returned"} => Len(lineage.frames) = NImages)

\* C5, amended: the frame list only grows; a window step with window_end <= N adds
\* one synth image and one cell map, and adds one frame exactly when window_end > 1
\* (at the first step the frame is the one the lineage was built with); after the
\* extension the three lists have length min(window_end, N); no frame is removed
\* or moved; a run that is not a temperature search and completes ends with N
\* frames.
C5_FramesFollowWindow ==
    /\ []LengthsFollowWindow
    /\ [][/\ FramesKept
          /\ pc = "window" =>
               /\ Len(lineage'.frames) =
                    Len(lineage.frames)
                      + (IF 1 < WindowEnd /\ WindowEnd <= NImages THEN 1 ELSE 0)
               /\ Len(synthimages') = Len(synthimages) + (IF WindowEnd <= NImages THEN 1 ELSE 0)
               /\ Len(cellmaps') = Len(cellmaps) + (IF WindowEnd <= NImages THEN 1 ELSE 0)]_vars
    /\ [](pc = "done" => Len(lineage.frames) = NImages)

\* a completed run over three images, which passed every kind of window step
C5_Witness ==
    /\ pc = "done"
    /\ NImages >= 3
    /\ Len(lineage.frames) = NImages
    /\ Len(synthimages) = NImages

\* C6: a run that is not a temperature search starts at window_start = 1-W and
\* moves window_start up by one, only after the last iteration of the window, until
\* it has processed N-1; it writes no output for a negative window_start and writes
\* the output of frame window_start, once, right after the iterations of the window
\* starting there: the outputs so far are those of frames 0, 1, ... in order, and a
\* completed run has written all N.
C6_WindowSchedule ==
    /\ ~args.in_auto_temp_schedule => window_start = 1 - Config.window_size
    /\ [](~args.in_auto_temp_schedule =>
            /\ window_start \in (1 - Config.window_size)..NImages
            /\ pc \in {"window", "anneal", "decide"} => window_start < NImages
            /\ pc = "done" => window_start = NImages
            /\ Len(outputs) = Max(window_start, 0)
            /\ \A i \in 1..Len(outputs) : outputs[i].file = i - 1)
    /\ [][~args.in_auto_temp_schedule =>
            /\ window_start' # window_start =>
                 /\ window_start' = window_start + 1
                 /\ pc = "anneal" /\ iteration = run_count
            /\ outputs' # outputs =>
                 /\ pc = "anneal" /\ iteration = run_count
                 /\ window_start >= 0
                 /\ Len(outputs') = Len(outputs) + 1
                 /\ SubSeq(outputs', 1, Len(outputs)) = outputs
                 /\ outputs'[Len(outputs')].file = window_start]_vars

\* a completed run, with the outputs of all its frames
C6_Witness ==
    /\ ~args.in_auto_temp_schedule
    /\ pc = "done"
    /\ Len(outputs) = NImages
    /\ NImages > Config.window_size

\* C7: the best-fit image, the overlay and the residual image written for frame
\* window_start are all built from frame window_start.
C7_OutputsOfWindowStart ==
    \A i \in 1..Len(outputs) :
      /\ outputs[i].bestfit = outputs[i].file
      /\ outputs[i].overlay = outputs[i].file
      /\ outputs[i].residual = outputs[i].file

(***************************************************************************)
(* Properties of the driver: one annealing iteration.                      *)
(***************************************************************************)
\* C8: for a valid Change, costdiff <= 0 leaves the bad-move counters alone and the
\* Change is applied whatever the roll; costdiff > 0 counts one bad move and adds
\* exp(-costdiff/T) to the bad-move total, and the Change is applied only when that
\* probability exceeds the roll; nothing else counts bad moves.
C8_AcceptanceRule ==
    /\ [][pc = "anneal" /\ pc' = "decide" =>
            IF change'.costdiff <= 0
            THEN /\ change'.acceptance = 1000
                 /\ bad_count' = bad_count
                 /\ pbad_total' = pbad_total
            ELSE /\ change'.acceptance = ExpNeg(change'.costdiff, Temperature)
                 /\ bad_count' = bad_count + 1
                 /\ pbad_total' = pbad_total + ExpNeg(change'.costdiff, Temperature)]_vars
    /\ [][pc = "decide" =>
            /\ change.costdiff <= 0 => applied' = applied + 1
            /\ \E roll \in Rolls : applied' = applied + 1 <=> change.acceptance > roll
            /\ (UNCHANGED << bad_count, pbad_total >>)]_vars
    /\ [][~(pc = "anneal" /\ pc' = "decide") =>
            /\ pbad_total' = pbad_total
            /\ bad_count' = bad_count \/ (pc = "window" /\ bad_count' = 0)]_vars

\* every iteration of the window so far made a bad move, and the last was applied
C8_Witness ==
    /\ pc = "anneal"
    /\ iteration >= 2
    /\ bad_count = iteration
    /\ pbad_total > 0
    /\ applied = 1

\* C9: apply() of a Change is called at most once, and only once the driver has
\* read its is_valid as true; for an absent or invalid Change the iteration ends
\* without costdiff and without apply.
C9_ApplyOnceIfValid ==
    /\ [](/\ applied \in {0, 1}
          /\ pc = "decide" =>
               /\ change.obj.kind # "none"
               /\ change.obj.valid
               /\ applied = 0
          /\ pc \in {"window", "anneal", "done", "returned"} => change = Idle)
    /\ [][applied' = applied + 1 => pc = "decide" /\ change.obj.valid]_vars
    /\ [][pc = "anneal" /\ pc' = "anneal" /\ iteration' = iteration + 1 =>
            /\ applied' = 0
            /\ change' = Idle
            /\ (UNCHANGED << lineage, synthimages, cellmaps, bad_count, pbad_total >>)]_vars

\* a Change was applied in the current window of a run with three frames
C9_Witness ==
    /\ pc = "anneal"
    /\ applied = 1
    /\ iteration >= 1
    /\ Len(lineage.frames) = 3

C11_NoChangeRaises == error \notin {"AttributeError", "KeyError"}

\* the per-cell bounds of a configuration on an image of the given shape
InBounds(config, imageshape, c) ==
    /\ config.minWidth <= c.width /\ c.width <= config.maxWidth
    /\ config.minLength < c.length /\ c.length < config.maxLength
    /\ 0 <= c.x /\ c.x < imageshape[2]
    /\ 0 <= c.y /\ c.y < imageshape[1]

ColonyInBounds ==
    \A i \in 1..Len(args.colony) : InBounds(Config, ImageShape, args.colony[i])

\* C12: when every cell of the initial colony is within the per-cell bounds
\* (width, length, centre inside the image), every cell registered in every
\* frame is within them after any sequence of driver steps.
C12_CellsInBounds ==
    ColonyInBounds =>
      \A k \in 1..Len(lineage.frames) :
        \A n \in DOMAIN lineage.frames[k].node_map :
          InBounds(Config, ImageShape, lineage.nodes[lineage.frames[k].node_map[n]].cell)

\* a colony within the bounds; the halves left by an accepted Split were copied
\* forward to the third frame
C12_Witness ==
    /\ ColonyInBounds
    /\ Len(lineage.frames) = 3
    /\ \E n \in DOMAIN lineage.frames[3].node_map :
         lineage.nodes[lineage.frames[3].node_map[n]].cell.split_alpha # NoAlpha

\* C13: a first-frame colony with a cell outside the per-cell bounds makes the
\* run end with InitialConstraintViolation while the initial lineage is built:
\* no iteration runs, no frame is added and no output is written.
C13_InitialColonyChecked ==
    ~ColonyInBounds =>
      /\ error = "InitialConstraintViolation"
      /\ iteration = 0
      /\ Len(lineage.frames) = 1
      /\ outputs = << >>

(***************************************************************************)
(* The cell operations on their own: a cell is split at an alpha and the   *)
(* halves are combined; alongside, a Split and then a Combination are      *)
(* applied, whatever their is_valid, to the node of the cell in a lineage  *)
(* of two frames.                                                          *)
(***************************************************************************)
\* the cells and the alphas (in tenths) tried
TestCells ==
    { Bacilli(NameA, x, 800, w, l, r, NoAlpha) :
        x \in {1200, 2000}, w \in {200, 400}, l \in {800, 1200, 1600}, r \in 0..3 }

TestAlphas == 1..9

InitCell ==
    \E c \in TestCells, alpha \in TestAlphas :
      LET call == Call(FALSE, 1, "binary", << c >>, SteadyConfig, SmallStep, IterationsPerCell)
          lin == copy_forward(build_initial_lineage(call.simulation, call.colony))
          img == generate_synthetic_image(lin, FrameNodes(lin.frames[1]), call.simulation)
      IN  /\ args = call
          /\ lineage = lin
          /\ synthimages = << img.synth, img.synth >>
          /\ cellmaps = << img.cellmap, img.cellmap >>
          /\ result = [cell |-> c, alpha |-> alpha, halves |-> << >>, combined |-> << >>]
          /\ pc = "cell"
          /\ window_start = 0
          /\ run_count = 0
          /\ iteration = 0
          /\ bad_count = 0
          /\ pbad_total = 0
          /\ frame_index = NoFrame
          /\ change = Idle
          /\ applied = 0
          /\ outputs = << >>
          /\ error = ""

OnlyCell ==
    UNCHANGED << args, window_start, run_count, iteration, bad_count, pbad_total,
                 frame_index, change, applied, outputs, error >>

\* cell.split(alpha), and Split(node).apply() in frame 1 with the same alpha
SplitCell ==
    /\ pc = "cell"
    /\ LET root == lineage.frames[1].node_map[result.cell.name]
           after == SplitApply(State, Split(lineage, 1, root, result.alpha))
       IN  /\ result' = [result EXCEPT !.halves = split(result.cell, result.alpha)]
           /\ lineage' = after.lineage
           /\ synthimages' = after.synthimages
           /\ cellmaps' = after.cellmaps
    /\ pc' = "halves"
    /\ OnlyCell

\* c0.combine(c1), and Combination(node).apply() in frame 1
CombineCells ==
    /\ pc = "halves"
    /\ LET root == lineage.frames[1].node_map[result.cell.name]
           after == CombinationApply(State, [Combination(lineage, 1, root) EXCEPT !.valid = TRUE])
       IN  /\ result' = [result EXCEPT !.combined = combine(result.halves[1], result.halves[2])]
           /\ lineage' = after.lineage
           /\ synthimages' = after.synthimages
           /\ cellmaps' = after.cellmaps
    /\ pc' = "combined"
    /\ OnlyCell

NextCell == SplitCell \/ CombineCells

SpecCell == InitCell /\ [][NextCell]_vars

\* C14: split(alpha) yields c0 named name+'0' of length alpha*length and c1 named
\* name+'1' of length (1-alpha)*length, both with the width and rotation of the
\* cell, and c0.combine(c1) has the name, position, width and length of the cell;
\* in the lineage, a Split and then a Combination applied to the same node leave
\* the child frame with a single node of the original name, length and position.
C14_SplitCombineRoundTrip ==
    LET c == result.cell
        h == result.halves
        m == result.combined
        map == lineage.frames[2].node_map
    IN  /\ pc \in {"halves", "combined"} =>
              /\ h[1].name = Append(c.name, "0") /\ h[2].name = Append(c.name, "1")
              /\ 10 * h[1].length = result.alpha * c.length
              /\ 10 * h[2].length = (10 - result.alpha) * c.length
              /\ h[1].width = c.width /\ h[2].width = c.width
              /\ h[1].rotation = c.rotation /\ h[2].rotation = c.rotation
        /\ pc = "combined" =>
              /\ m.name = c.name /\ m.x = c.x /\ m.y = c.y
              /\ m.width = c.width /\ m.length = c.length
              /\ DOMAIN map = { c.name }
              /\ lineage.nodes[map[c.name]].cell.length = c.length
              /\ lineage.nodes[map[c.name]].cell.x = c.x
              /\ lineage.nodes[map[c.name]].cell.y = c.y

\* an uneven split of a cell lying along the other image axis was combined again
C14_Witness ==
    /\ pc = "combined"
    /\ result.alpha = 3
    /\ result.cell.rotation = 1
    /\ result.combined.length = 1600

\* C15: split(alpha) records alpha as split_alpha on both cells it returns.
C15_SplitRecordsAlpha ==
    pc \in {"halves", "combined"} =>
      /\ result.halves[1].split_alpha = result.alpha
      /\ result.halves[2].split_alpha = result.alpha

(***************************************************************************)
(* Bacilli.draw(image, is_cell, greySyntheticImage, phaseContractImage) of *)
(* src/cell.py, on the image row through the centre of a cell that lies    *)
(* along the row.  An image row is a sequence of pixel values in           *)
(* thousandths; image types are "binary" (greySyntheticImage false),       *)
(* "graySynthetic" and "phaseContrast" (both flags true).                  *)
(***************************************************************************)
ImageTypes == {"binary", "graySynthetic", "phaseContrast"}

\* the rows and columns of the images drawn on, in pixels
DrawShape == << 40, 40 >>

\* generate_synthetic_image before any cell is drawn: np.zeros or np.full(shape, 0.39)
FreshRow(type) == [p \in 1..DrawShape[2] |-> IF type = "binary" THEN 0 ELSE 390]

\* _refresh: the columns of the region of interest, [left, right)
RegionLeft(c) == (c.x - c.length \div 2) \div Units.pixel
RegionRight(c) == (c.x + c.length \div 2) \div Units.pixel + 1

\* int(self._sigma * 2) with _sigma = 3.0, and 0 once _sigma and _diff_v are zeroed
Expansion(type) == IF type = "graySynthetic" THEN 6 ELSE 0

\* the columns of body_mask, head_mask and tail_mask on the row
Covered(c) == RegionLeft(c)..(RegionRight(c) - 1)

\* the columns of the body polygon (between the centres of the end circles)
Body(c) ==
    ((c.x - (c.length - c.width) \div 2) \div Units.pixel)
      ..((c.x + (c.length - c.width) \div 2) \div Units.pixel)

\* gaussian(diff_mask, sigma) at a column d columns away from the covered ones
Diffraction(d) == IF d <= 0 THEN 500 ELSE (7 - d) * 40

Distance(c, p) ==
    IF p < RegionLeft(c) THEN RegionLeft(c) - p
    ELSE IF p >= RegionRight(c) THEN p - RegionRight(c) + 1 ELSE 0

\* the slice image[top:bottom, left:right] has the shape of the mask
SliceFits(c, type) ==
    /\ RegionLeft(c) - Expansion(type) >= 0
    /\ RegionRight(c) + Expansion(type) <= DrawShape[2]

\* the row after draw, when the slices fit
DrawnRow(row, c, polarity, type) ==
    [p \in 1..Len(row) |->
        IF (p - 1) \in Covered(c)
        THEN (CASE type = "binary" -> row[p] + (IF polarity THEN 1000 ELSE -1000)
                [] type = "graySynthetic" -> IF polarity THEN 150 ELSE 390
                \* body 0.25, ends 0.25, upper half 0.63, middle third 0.39 on top
                [] OTHER -> IF polarity /\ (p - 1) \notin Body(c) THEN 250 ELSE 390)
        ELSE IF type = "graySynthetic" /\ Distance(c, p - 1) <= Expansion(type)
        THEN row[p] + (IF polarity THEN 1 ELSE -1) * Diffraction(Distance(c, p - 1))
        ELSE row[p]]

\* Bacilli.draw: the row afterwards, and whether the call raised (the boolean
\* mask or the diffraction mask does not match the slice of the image)
Bacilli_draw(row, c, polarity, type) ==
    IF SliceFits(c, type)
    THEN [row |-> DrawnRow(row, c, polarity, type), raised |-> FALSE]
    ELSE [row |-> row, raised |-> TRUE]

(***************************************************************************)
(* Drawing on its own: a cell is drawn on a freshly allocated image and    *)
(* then erased from it.                                                    *)
(***************************************************************************)
\* the cells drawn: 6 pixels wide, 10 to 20 pixels long, along the row
DrawnCells ==
    { Bacilli(NameA, x * Units.pixel, 20 * Units.pixel, 6 * Units.pixel, l * Units.pixel,
              0, NoAlpha) : x \in {4, 12, 16, 20, 24, 28, 36}, l \in {10, 14, 20} }

InitDraw ==
    \E c \in DrawnCells, type \in ImageTypes :
      /\ args = Call(FALSE, 1, type, << c >>, SteadyConfig, SmallStep, IterationsPerCell)
      /\ lineage = LineageM(args.simulation)
      /\ synthimages = << FreshRow(type) >>
      /\ cellmaps = << >>
      /\ result = c
      /\ pc = "fresh"
      /\ window_start = 0
      /\ run_count = 0
      /\ iteration = 0
      /\ bad_count = 0
      /\ pbad_total = 0
      /\ frame_index = NoFrame
      /\ change = Idle
      /\ applied = 0
      /\ outputs = << >>
      /\ error = ""

OnlyImage ==
    UNCHANGED << args, lineage, cellmaps, result, window_start, run_count, iteration,
                 bad_count, pbad_total, frame_index, change, applied, outputs >>

\* cell.draw(image, is_cell, ...) on the fresh image
DrawCell ==
    /\ pc = "fresh"
    /\ LET r == Bacilli_draw(synthimages[1], result, is_cell, args.simulation.image_type)
       IN  /\ synthimages' = << r.row >>
           /\ pc' = IF r.raised THEN "raised" ELSE "drawn"
           /\ error' = IF r.raised THEN "IndexError" ELSE error
    /\ OnlyImage

\* cell.draw(image, is_background, ...) on the image the cell was drawn on
EraseCell ==
    /\ pc = "drawn"
    /\ LET r == Bacilli_draw(synthimages[1], result, is_background, args.simulation.image_type)
       IN  /\ synthimages' = << r.row >>
           /\ pc' = IF r.raised THEN "raised" ELSE "erased"
           /\ error' = IF r.raised THEN "IndexError" ELSE error
    /\ OnlyImage

NextDraw == DrawCell \/ EraseCell

SpecDraw == InitDraw /\ [][NextDraw]_vars

\* C16: for every bacillus and every image type, draw with polarity is_cell and
\* then draw with polarity is_background, on a freshly allocated image, complete
\* and leave every pixel of the image as it was allocated.
C16_DrawEraseRoundTrip ==
    /\ pc # "raised"
    /\ pc = "erased" => synthimages[1] = FreshRow(args.simulation.image_type)

(***************************************************************************)
(* costdiff and apply of the Changes on one image row: costdiff works on a *)
(* copy of the synth image and sums the objective over the union of the    *)
(* regions of the cells involved; apply draws on the synth image itself.   *)
(* Costs are in millionths (pixel values in thousandths, squared).         *)
(***************************************************************************)
\* optimization.objective over the columns [left, right) of a row
objective(real, synth, left, right) ==
    Sum([i \in 1..(right - left) |->
           (real[left + i] - synth[left + i]) * (real[left + i] - synth[left + i])])

\* cell.simulated_region(simulation_config): the region widened by the diffraction
SimulatedLeft(c, type) == RegionLeft(c) - Expansion(type)
SimulatedRight(c, type) == RegionRight(c) + Expansion(type)

\* the draws of a list of << cell, polarity >> in order
RECURSIVE DrawInOrder(_, _, _)
DrawInOrder(row, draws, type) ==
    IF draws = << >> THEN row
    ELSE DrawInOrder(Bacilli_draw(row, Head(draws)[1], Head(draws)[2], type).row,
                     Tail(draws), type)

\* the draws of costdiff on its copy: lines 243-244, 343-346, 440-442
CostDraws(kind, old, new) ==
    CASE kind = "perturbation" -> << << old[1], is_background >>, << new[1], is_cell >> >>
      [] kind = "split" ->
           << << old[1], is_background >>, << new[1], is_cell >>, << new[2], is_cell >> >>
      [] kind = "combine" ->
           << << old[1], is_background >>, << old[2], is_background >>, << new[1], is_cell >> >>

\* the draws of apply on the synth image: lines 269-270, 372-377, 467-469
ApplyDraws(kind, old, new) ==
    CASE kind = "perturbation" -> << << old[1], is_background >>, << new[1], is_cell >> >>
      [] kind = "split" ->
           << << old[1], is_background >>, << new[1], is_cell >>, << new[2], is_cell >> >>
      [] kind = "combine" ->
           << << new[1], is_cell >>, << old[1], is_background >>, << old[2], is_background >> >>

\* split.cost of the configuration, in millionths
SplitCost == Config.split_cost * 1000

\* a faulty costdiff, which adds split.cost for a Combination too
CostDiffOnRowAdding(kind, old, new, real, synth, type) ==
    LET cells == old \o new
        left == CHOOSE l \in { SimulatedLeft(cells[i], type) : i \in 1..Len(cells) } :
                  \A i \in 1..Len(cells) : l <= SimulatedLeft(cells[i], type)
        right == CHOOSE r \in { SimulatedRight(cells[i], type) : i \in 1..Len(cells) } :
                   \A i \in 1..Len(cells) : r >= SimulatedRight(cells[i], type)
        new_synth == DrawInOrder(synth, CostDraws(kind, old, new), type)
        delta == objective(real, new_synth, left, right) - objective(real, synth, left, right)
    IN  IF kind \in { "split", "combine" } THEN delta + SplitCost ELSE delta

\* Change.costdiff
CostDiffOnRow(kind, old, new, real, synth, type) ==
    LET cells == old \o new
        left == CHOOSE l \in { SimulatedLeft(cells[i], type) : i \in 1..Len(cells) } :
                  \A i \in 1..Len(cells) : l <= SimulatedLeft(cells[i], type)
        right == CHOOSE r \in { SimulatedRight(cells[i], type) : i \in 1..Len(cells) } :
                   \A i \in 1..Len(cells) : r >= SimulatedRight(cells[i], type)
        new_synth == DrawInOrder(synth, CostDraws(kind, old, new), type)
        delta == objective(real, new_synth, left, right) - objective(real, synth, left, right)
    IN  CASE kind = "split" -> delta + SplitCost
          [] kind = "combine" -> delta - SplitCost
          [] OTHER -> delta

\* the cells the Changes are built for, and what the Changes replace them by
CostCells ==
    { Bacilli(NameA, x * Units.pixel, 20 * Units.pixel, 6 * Units.pixel, l * Units.pixel,
              0, NoAlpha) : x \in {18, 20, 22}, l \in {10, 14} }

Proposals(c) ==
    { [kind |-> "perturbation", old |-> << c >>, new |-> << [c EXCEPT !.x = @ + Units.pixel] >>],
      [kind |-> "perturbation", old |-> << c >>,
       new |-> << [c EXCEPT !.length = @ + 2 * Units.pixel] >>] }
    \cup { [kind |-> "split", old |-> << c >>, new |-> split(c, alpha)] : alpha \in Alphas }
    \cup { [kind |-> "combine", old |-> split(c, alpha),
            new |-> << combine(split(c, alpha)[1], split(c, alpha)[2]) >>] : alpha \in Alphas }

\* the real image rows: black, and the grey of the background
RealRows == { [p \in 1..DrawShape[2] |-> v] : v \in {0, 390} }

InitCost ==
    \E c \in CostCells, type \in ImageTypes, real \in RealRows :
    \E proposal \in Proposals(c) :
      LET before == DrawInOrder(FreshRow(type),
                                [i \in 1..Len(proposal.old) |-> << proposal.old[i], is_cell >>],
                                type)
      IN  /\ args = Call(FALSE, 1, type, << c >>, SteadyConfig, SmallStep, IterationsPerCell)
          /\ lineage = LineageM(args.simulation)
          /\ synthimages = << before >>
          /\ cellmaps = << >>
          /\ result = [kind |-> proposal.kind, old |-> proposal.old, new |-> proposal.new,
                       real |-> real, before |-> before, costdiff |-> 0]
          /\ pc = "proposed"
          /\ window_start = 0
          /\ run_count = 0
          /\ iteration = 0
          /\ bad_count = 0
          /\ pbad_total = 0
          /\ frame_index = NoFrame
          /\ change = Idle
          /\ applied = 0
          /\ outputs = << >>
          /\ error = ""

OnlyCost ==
    UNCHANGED << args, lineage, cellmaps, window_start, run_count, iteration, bad_count,
                 pbad_total, frame_index, change, outputs, error >>

\* costdiff = change.costdiff
EvaluateCost ==
    /\ pc = "proposed"
    /\ result' = [result EXCEPT !.costdiff =
                    CostDiffOnRow(result.kind, result.old, result.new, result.real,
                                  synthimages[1], args.simulation.image_type)]
    /\ pc' = "costed"
    /\ UNCHANGED << synthimages, applied >>
    /\ OnlyCost

\* change.apply()
ApplyChange ==
    /\ pc = "costed"
    /\ synthimages' = << DrawInOrder(synthimages[1],
                                     ApplyDraws(result.kind, result.old, result.new),
                                     args.simulation.image_type) >>
    /\ applied' = applied + 1
    /\ pc' = "applied"
    /\ UNCHANGED result
    /\ OnlyCost

NextCost == EvaluateCost \/ ApplyChange

SpecCost == InitCost /\ [][NextCost]_vars

\* the objective over the whole row
FullObjective(synth) == objective(result.real, synth, 0, DrawShape[2])

\* C17: for every kind of Change, costdiff equals the full-image objective after
\* apply minus the full-image objective before apply, with no other term.
C17_CostLocality ==
    pc = "applied" =>
      result.costdiff = FullObjective(synthimages[1]) - FullObjective(result.before)

(***************************************************************************)
(* check_constraints on its own: the same cells and pairs are checked      *)
(* again under configurations whose bounds are relaxed one at a time and   *)
(* on images enlarged one side at a time.                                  *)
(***************************************************************************)
\* a configuration that admits cells 10 pixels wide and 30 to 50 pixels long
TightConfig ==
    [SteadyConfig EXCEPT !.minWidth = 400, !.maxWidth = 400, !.minLength = 1200,
                         !.maxLength = 2000, !.maxSpeed = 400, !.maxSpin = 1,
                         !.minGrowth = -200, !.maxGrowth = 200]

LowerBounds == {"minWidth", "minLength", "minGrowth"}
UpperBounds == {"maxWidth", "maxLength", "maxGrowth", "maxSpeed", "maxSpin"}

\* the amount a bound is relaxed by: 10 pixels, or a quarter turn
Relaxation(bound) == IF bound = "maxSpin" THEN 1 ELSE 400

Relaxed(config, bound) ==
    [config EXCEPT ![bound] = IF bound \in LowerBounds THEN @ - Relaxation(bound)
                              ELSE @ + Relaxation(bound)]

CheckedCell == Bacilli(NameA, 2000, 800, 400, 1600, 0, NoAlpha)

\* lists of cells: within the tight bounds, too wide, too narrow, too long, too
\* short, right of the image, below the image
CheckedCells ==
    { << CheckedCell >>,
      << CheckedCell, [CheckedCell EXCEPT !.width = 800] >>,
      << [CheckedCell EXCEPT !.width = 200] >>,
      << [CheckedCell EXCEPT !.length = 2000] >>,
      << [CheckedCell EXCEPT !.length = 1200], CheckedCell >>,
      << [CheckedCell EXCEPT !.x = 4000] >>,
      << [CheckedCell EXCEPT !.y = 1600] >> }

\* lists of (prior, current) pairs: none, a step within the bounds, too far, too
\* much of a turn, grown too much, shrunk too much, an unmoved and a moved cell
CheckedPairs ==
    { << >>,
      << << CheckedCell, [CheckedCell EXCEPT !.x = @ + 400] >> >>,
      << << CheckedCell, [CheckedCell EXCEPT !.y = @ - 800] >> >>,
      << << CheckedCell, [CheckedCell EXCEPT !.rotation = 2] >> >>,
      << << CheckedCell, [CheckedCell EXCEPT !.length = @ + 400] >> >>,
      << << CheckedCell, [CheckedCell EXCEPT !.length = @ - 400] >> >>,
      << << CheckedCell, CheckedCell >>,
         << CheckedCell, [CheckedCell EXCEPT !.x = @ + 400, !.y = @ + 400] >> >> }

InitConstraints ==
    \E cells \in CheckedCells, pairs \in CheckedPairs :
      /\ args = Call(FALSE, 1, "binary", << >>, TightConfig, SmallStep, IterationsPerCell)
      /\ result = [cells |-> cells, pairs |-> pairs,
                   first |-> check_constraints(args.config, args.shape, cells, pairs),
                   accepted |-> check_constraints(args.config, args.shape, cells, pairs)]
      /\ lineage = LineageM(args.simulation)
      /\ pc = "checked"
      /\ window_start = 0
      /\ synthimages = << >>
      /\ cellmaps = << >>
      /\ run_count = 0
      /\ iteration = 0
      /\ bad_count = 0
      /\ pbad_total = 0
      /\ frame_index = NoFrame
      /\ change = Idle
      /\ applied = 0
      /\ outputs = << >>
      /\ error = ""

Recheck(config, shape) ==
    /\ args' = [args EXCEPT !.config = config, !.shape = shape]
    /\ result' = [result EXCEPT !.accepted =
                    check_constraints(config, shape, result.cells, result.pairs)]
    /\ UNCHANGED << lineage, synthimages, cellmaps, pc, window_start, run_count, iteration,
                    bad_count, pbad_total, frame_index, change, applied, outputs, error >>

\* check_constraints under a configuration with one bound relaxed
RelaxBound ==
    \E bound \in LowerBounds \cup UpperBounds :
      /\ args.config[bound] = TightConfig[bound]
      /\ Recheck(Relaxed(args.config, bound), args.shape)

\* check_constraints on an image with more rows or more columns
EnlargeImage ==
    \E side \in 1..2 :
      /\ args.shape[side] = Call(FALSE, 1, "binary", << >>, TightConfig, SmallStep,
                                 IterationsPerCell).shape[side]
      /\ Recheck(args.config, [args.shape EXCEPT ![side] = @ + 400])

NextConstraints == RelaxBound \/ EnlargeImage

SpecConstraints == InitConstraints /\ [][NextConstraints]_vars

\* C18: cells and pairs that check_constraints accepts under a configuration and
\* an image shape are accepted under every configuration whose bounds are at
\* least as permissive (same frames per second) and every image at least as large.
C18_ConstraintMonotonicity == [][result.accepted => result'.accepted]_vars

\* pairs accepted under the tight bounds are accepted after a bound was relaxed
\* and the image enlarged
C18_Witness ==
    /\ pc = "checked"
    /\ result.first /\ result.accepted
    /\ Len(result.pairs) > 0
    /\ args.config # TightConfig
    /\ args.shape[2] > 4000

\* what choose_random_frame_index(start, end) may return on a lineage
FrameChoiceOk(lin, start, end, i) ==
    /\ i # NoFrame
    /\ ClampStart(start) <= i /\ i < ClampEnd(lin, end)
    /\ DOMAIN lin.frames[i + 1].node_map # {}

\* C19: whenever the window [start, end), clamped to the frames of the lineage,
\* holds a cell, choose_random_frame_index(start, end) returns an index of the
\* clamped window whose frame has a cell; the RuntimeError after its loop is never
\* reached, and every iteration of the driver picks its node from such a frame.
C19_FrameChoice ==
    /\ [](/\ error # "RuntimeError"
          /\ \A start \in -2..(NImages + 1) : \A end \in -2..(NImages + 1) :
               count_cells_in(lineage, start, end) >= 1 =>
                 \A i \in choose_random_frame_index(lineage, start, end) :
                   FrameChoiceOk(lineage, start, end, i))
    /\ [][pc = "anneal" /\ iteration < run_count /\ pc' # "raised" =>
            FrameChoiceOk(lineage, window_start, window_start + Config.window_size,
                          frame_index')]_vars

\* an iteration of the last window picked its node from the window's second frame
C19_Witness ==
    /\ pc = "anneal"
    /\ iteration >= 1
    /\ window_start = 1
    /\ frame_index = 2
    /\ Len(lineage.frames) = 3

\* ---------------------------------------------------------------------------
\* auto_temp_schedule: the bracket of the start and end temperatures, over a
\* deterministic pbad(T) that is monotonically non-decreasing in T.
\*
\* A temperature is 10^tens * 1.1^steps, kept as its two exponents, since the
\* schedule only multiplies and divides by 10 and multiplies by 1.1.  LogT is
\* its logarithm in thousandths of ln(1.1): ln(10) / ln(1.1) = 24.159.
\* pbad is in millionths.
\* ---------------------------------------------------------------------------
MaxTens == 3
MaxSteps == 60

TempOne == [tens |-> 0, steps |-> 0]

LogT(T) == T.tens * 24159 + T.steps * 1000

\* the curves pbad(T): a step from lo to hi at LogT = at, and a ramp from 0 to 1
\* that starts at LogT = at and is width wide; lo = hi is a constant curve
PbadSteps ==
    { [kind |-> "step", at |-> at, lo |-> lh[1], hi |-> lh[2], width |-> 0] :
        at \in { -30000, -5000, 12000, 30000 },
        lh \in { << 0, 400000 >>, << 0, 420000 >>, << 0, 440000 >>, << 0, 1000000 >>,
                 << 100000, 1000000 >>, << 400000, 1000000 >>, << 0, 300000 >>,
                 << 0, 0 >>, << 500000, 500000 >> } }

PbadRamps ==
    { [kind |-> "ramp", at |-> at, lo |-> 0, hi |-> 1000000, width |-> width] :
        at \in { -40000, -5000, 12000, 30000 },
        width \in { 5000, 40000 } }

PbadCurves == PbadSteps \cup PbadRamps

\* optimize(..., in_auto_temp_schedule=True, const_temp=T), as the curve f gives it
optimize_pbad(f, T) ==
    IF f.kind = "step"
    THEN IF LogT(T) < f.at THEN f.lo ELSE f.hi
    ELSE IF LogT(T) <= f.at THEN 0
         ELSE IF LogT(T) >= f.at + f.width THEN 1000000
         ELSE (((LogT(T) - f.at) * 1000) \div f.width) * 1000

\* a faulty test, which also holds at pbad = 0.40
BelowTargetInclusive(p) == p <= 400000

\* pbad < 0.40
BelowTarget(p) == p < 400000

\* pbad > 0.40
AboveTarget(p) == p > 400000

\* pbad > 1e-10; pbad is a whole number of millionths
AboveNegligible(p) == p > 0

InitTemperature ==
    \E f \in PbadCurves :
      /\ args = Call(TRUE, 1, "binary", << >>, SteadyConfig, SmallStep, IterationsPerCell)
      /\ result = [pbad |-> f, initial_temp |-> TempOne, end_temp |-> None]
      /\ lineage = LineageM(args.simulation)
      /\ pc = "raise_by_ten"
      /\ window_start = 0
      /\ synthimages = << >>
      /\ cellmaps = << >>
      /\ run_count = 0
      /\ iteration = 0
      /\ bad_count = 0
      /\ pbad_total = 0
      /\ frame_index = NoFrame
      /\ change = Idle
      /\ applied = 0
      /\ outputs = << >>
      /\ error = ""

OnlyTemperature ==
    UNCHANGED << args, lineage, synthimages, cellmaps, window_start, run_count, iteration,
                 bad_count, pbad_total, frame_index, change, applied, outputs, error >>

\* first loop: initial_temp *= 10.0 while pbad < 0.40
RaiseByTen ==
    /\ pc = "raise_by_ten"
    /\ IF BelowTarget(optimize_pbad(result.pbad, result.initial_temp))
       THEN IF result.initial_temp.tens < MaxTens
            THEN /\ result' = [result EXCEPT !.initial_temp.tens = @ + 1]
                 /\ pc' = pc
            ELSE /\ pc' = "unbounded"
                 /\ result' = result
       ELSE /\ pc' = "lower_by_ten"
            /\ result' = result
    /\ OnlyTemperature

\* second loop: initial_temp /= 10.0 while pbad > 0.40
LowerByTen ==
    /\ pc = "lower_by_ten"
    /\ IF AboveTarget(optimize_pbad(result.pbad, result.initial_temp))
       THEN IF result.initial_temp.tens > -MaxTens
            THEN /\ result' = [result EXCEPT !.initial_temp.tens = @ - 1]
                 /\ pc' = pc
            ELSE /\ pc' = "unbounded"
                 /\ result' = result
       ELSE /\ pc' = "raise_by_tenth"
            /\ result' = result
    /\ OnlyTemperature

\* third loop: initial_temp *= 1.1 while pbad < 0.40; then end_temp = initial_temp
RaiseByTenth ==
    /\ pc = "raise_by_tenth"
    /\ IF BelowTarget(optimize_pbad(result.pbad, result.initial_temp))
       THEN IF result.initial_temp.steps < MaxSteps
            THEN /\ result' = [result EXCEPT !.initial_temp.steps = @ + 1]
                 /\ pc' = pc
            ELSE /\ pc' = "unbounded"
                 /\ result' = result
       ELSE /\ pc' = "lower_end"
            /\ result' = [result EXCEPT !.end_temp = result.initial_temp]
    /\ OnlyTemperature

\* last loop: end_temp /= 10.0 while pbad > 1e-10; then return both
LowerEnd ==
    /\ pc = "lower_end"
    /\ IF AboveNegligible(optimize_pbad(result.pbad, result.end_temp))
       THEN IF result.end_temp.tens > -(2 * MaxTens)
            THEN /\ result' = [result EXCEPT !.end_temp.tens = @ - 1]
                 /\ pc' = pc
            ELSE /\ pc' = "unbounded"
                 /\ result' = result
       ELSE /\ pc' = "returned"
            /\ result' = result
    /\ OnlyTemperature

NextTemperature == RaiseByTen \/ LowerByTen \/ RaiseByTenth \/ LowerEnd

\* every loop goes on as long as its test holds
SpecTemperature ==
    InitTemperature /\ [][NextTemperature]_vars /\ WF_vars(NextTemperature)

\* the temperature one multiplication by 1.1 before T
StepBefore(T) == [T EXCEPT !.steps = @ - 1]

\* C20 as stated: on every monotonically non-decreasing pbad(T) the schedule
\* returns, with 0.40 <= pbad(T_start) < 0.40 * 1.1 and T_end <= T_start.
C20_BracketWithinTenPercent ==
    /\ <>(pc = "returned")
    /\ [](pc = "returned" =>
            /\ optimize_pbad(result.pbad, result.initial_temp) >= 400000
            /\ optimize_pbad(result.pbad, result.initial_temp) < 440000
            /\ LogT(result.end_temp) <= LogT(result.initial_temp))

\* C20, amended: once the third loop has ended, pbad(T_start) >= 0.40, and T_start
\* is within a factor 1.1 of a temperature where pbad < 0.40 (or pbad(T_start) is
\* exactly 0.40 when the third loop multiplied nothing); pbad(T_start) is below
\* 0.40 * 1.1 when that last multiplication raised pbad by less than a tenth.
\* When the schedule returns, T_end is T_start divided by a power of ten,
\* T_end <= T_start, and pbad(T_end) is not above 1e-10.
C20_BracketWithinOneStep ==
    pc \in { "lower_end", "returned" } =>
      LET f == result.pbad
          start == result.initial_temp
      IN  /\ optimize_pbad(f, start) >= 400000
          /\ start.steps = 0 => optimize_pbad(f, start) = 400000
          /\ start.steps >= 1 =>
               /\ optimize_pbad(f, StepBefore(start)) < 400000
               /\ optimize_pbad(f, start) * 10 < optimize_pbad(f, StepBefore(start)) * 11
                    => optimize_pbad(f, start) < 440000
          /\ result.end_temp.steps = start.steps
          /\ result.end_temp.tens <= start.tens
          /\ LogT(result.end_temp) <= LogT(start)
          /\ pc = "returned" => optimize_pbad(f, result.end_temp) = 0

\* the schedule returned after each loop changed its temperature, and pbad at
\* the start temperature is 0.44 or more
C20_Witness ==
    /\ pc = "returned"
    /\ result.initial_temp.tens < 0
    /\ result.initial_temp.steps >= 2
    /\ result.end_temp.tens < result.initial_temp.tens
    /\ optimize_pbad(result.pbad, result.initial_temp) >= 440000

\* ---------------------------------------------------------------------------
\* src/optimization.py: the tasks the dispatcher submits.  optimize_core
\* declares `global debugcount, badcount`, and draws from the generator of the
\* random module; these belong to the interpreter that runs the task.  Where
\* client.submit runs a task is the client's choice: two tasks run in one
\* interpreter (threads of one worker) or in two.
\* ---------------------------------------------------------------------------
Tasks == 1..2

Interpreters == 1..2

TaskIterations == 2

SharedNames == { "debugcount", "badcount", "random" }

InitWorkers ==
    \E place \in [Tasks -> Interpreters] :
      /\ args = Call(FALSE, 1, "binary", << >>, SteadyConfig, SmallStep, IterationsPerCell)
      /\ result = [place |-> place,
                   colony |-> [t \in Tasks |-> t],
                   at |-> [t \in Tasks |-> "choose"],
                   i |-> [t \in Tasks |-> 0],
                   loaded |-> [t \in Tasks |-> 0],
                   draws |-> [t \in Tasks |-> << >>],
                   saved |-> [t \in Tasks |-> << >>],
                   debugcount |-> [p \in Interpreters |-> 0],
                   badcount |-> [p \in Interpreters |-> 0],
                   random |-> [p \in Interpreters |-> 0],
                   readers |-> [p \in Interpreters |-> [n \in SharedNames |-> {}]],
                   writers |-> [p \in Interpreters |-> [n \in SharedNames |-> {}]]]
      /\ lineage = LineageM(args.simulation)
      /\ pc = "workers"
      /\ window_start = 0
      /\ synthimages = << >>
      /\ cellmaps = << >>
      /\ run_count = 0
      /\ iteration = 0
      /\ bad_count = 0
      /\ pbad_total = 0
      /\ frame_index = NoFrame
      /\ change = Idle
      /\ applied = 0
      /\ outputs = << >>
      /\ error = ""

\* task t reads the global `name` of its interpreter
Reads(r, t, name) ==
    [r EXCEPT !.readers[r.place[t]][name] = @ \cup { t }]

\* task t writes the global `name` of its interpreter
Writes(r, t, name) ==
    [r EXCEPT !.writers[r.place[t]][name] = @ \cup { t }]

WorkerStep(r) ==
    /\ pc = "workers"
    /\ result' = r
    /\ UNCHANGED << args, lineage, synthimages, cellmaps, pc, window_start, run_count,
                    iteration, bad_count, pbad_total, frame_index, change, applied,
                    outputs, error >>

\* line 323: index = random.randint(...), the next value of the interpreter's stream
ChooseCell ==
    \E t \in Tasks :
      /\ result.at[t] = "choose"
      /\ WorkerStep(Writes(Reads(
           [result EXCEPT !.draws[t] = Append(@, result.random[result.place[t]]),
                          !.random[result.place[t]] = @ + 1,
                          !.at[t] = "perturb"], t, "random"), t, "random"))

\* perturb_bacilli, lines 140-141: `badcount += 1` loads the global when wasbad
PerturbBacilli ==
    \E t \in Tasks, wasbad \in BOOLEAN :
      /\ result.at[t] = "perturb"
      /\ IF wasbad
         THEN WorkerStep(Reads(
                [result EXCEPT !.loaded[t] = result.badcount[result.place[t]],
                               !.at[t] = "bad_store"], t, "badcount"))
         ELSE WorkerStep([result EXCEPT !.at[t] = "save_residual"])

\* line 141: `badcount += 1` stores the sum
StoreBadcount ==
    \E t \in Tasks :
      /\ result.at[t] = "bad_store"
      /\ WorkerStep(Writes(
           [result EXCEPT !.badcount[result.place[t]] = result.loaded[t] + 1,
                          !.at[t] = "save_residual"], t, "badcount"))

\* line 459: debugimage.save(args.debug/f'residual{debugcount}.png')
SaveResidual ==
    \E t \in Tasks :
      /\ result.at[t] = "save_residual"
      /\ WorkerStep(Reads(
           [result EXCEPT !.saved[t] =
                            Append(@, << "residual", result.debugcount[result.place[t]] >>),
                          !.at[t] = "save_synthetic"], t, "debugcount"))

\* line 473: debugimage.save(args.debug/f'synthetic{debugcount}.png')
SaveSynthetic ==
    \E t \in Tasks :
      /\ result.at[t] = "save_synthetic"
      /\ WorkerStep(Reads(
           [result EXCEPT !.saved[t] =
                            Append(@, << "synthetic", result.debugcount[result.place[t]] >>),
                          !.at[t] = "count_load"], t, "debugcount"))

\* line 474: `debugcount += 1` loads the global
LoadDebugcount ==
    \E t \in Tasks :
      /\ result.at[t] = "count_load"
      /\ WorkerStep(Reads(
           [result EXCEPT !.loaded[t] = result.debugcount[result.place[t]],
                          !.at[t] = "count_store"], t, "debugcount"))

\* line 474: `debugcount += 1` stores the sum; then the next iteration
StoreDebugcount ==
    \E t \in Tasks :
      /\ result.at[t] = "count_store"
      /\ WorkerStep(Writes(
           [result EXCEPT !.debugcount[result.place[t]] = result.loaded[t] + 1,
                          !.i[t] = @ + 1,
                          !.at[t] = IF result.i[t] + 1 < TaskIterations
                                    THEN "choose" ELSE "done"], t, "debugcount"))

NextWorkers ==
    \/ ChooseCell
    \/ PerturbBacilli
    \/ StoreBadcount
    \/ SaveResidual
    \/ SaveSynthetic
    \/ LoadDebugcount
    \/ StoreDebugcount

SpecWorkers == InitWorkers /\ [][NextWorkers]_vars

\* what a task draws and saves when it runs alone
AloneDraws == << 0, 1 >>

AloneSaved ==
    << << "residual", 0 >>, << "synthetic", 0 >>, << "residual", 1 >>, << "synthetic", 1 >> >>

\* C21: tasks share no mutable state: each works on its own colony, no variable
\* written by one task is read or written by another, and what a finished task
\* drew and saved is what it draws and saves when it runs alone.
C21_NoSharedState ==
    pc = "workers" =>
      /\ \A t1 \in Tasks : \A t2 \in Tasks :
           t1 # t2 => result.colony[t1] # result.colony[t2]
      /\ \A p \in Interpreters : \A n \in SharedNames :
           \A t1 \in result.writers[p][n] :
             \A t2 \in result.readers[p][n] \cup result.writers[p][n] : t1 = t2
      /\ \A t \in Tasks :
           result.at[t] = "done" =>
             /\ result.draws[t] = AloneDraws
             /\ result.saved[t] = AloneSaved

\* ---------------------------------------------------------------------------
\* src/optimization.py, optimize with a client: the dispatcher's selection.
\* A future is known by its index, costs[f] is the cost its task returns.
\* ---------------------------------------------------------------------------
MaxTasks == 3

MaxCost == 3

MaxKeep == 4

Strategies == { "best-wins", "worst-wins", "extreme-wins", "first-wins" }

\* where sorted() places x among the sorted results before it: after every
\* result that does not come after it, so that equal costs keep their order
Inserted(sorted_results, x, costs, reverse) ==
    LET before == { k \in 1..Len(sorted_results) :
                      IF reverse THEN costs[sorted_results[k]] >= costs[x]
                                 ELSE costs[sorted_results[k]] <= costs[x] }
        at == Cardinality(before)
    IN  SubSeq(sorted_results, 1, at) \o << x >> \o
        SubSeq(sorted_results, at + 1, Len(sorted_results))

RECURSIVE sorted(_, _, _)
\* sorted(results, key=lambda x: x[1], reverse=reverse)
sorted(results, costs, reverse) ==
    IF results = << >> THEN << >>
    ELSE Inserted(sorted(SubSeq(results, 1, Len(results) - 1), costs, reverse),
                  results[Len(results)], costs, reverse)

RECURSIVE chain_zip(_, _)
\* list(chain.from_iterable(zip(bestresults, worstresults)))
chain_zip(bestresults, worstresults) ==
    IF bestresults = << >> \/ worstresults = << >> THEN << >>
    ELSE << Head(bestresults), Head(worstresults) >> \o
         chain_zip(Tail(bestresults), Tail(worstresults))

\* results[:keep]
Winning(results, keep) == SubSeq(results, 1, Min(keep, Len(results)))

InitDispatch ==
    \E n \in 1..MaxTasks, strategy \in Strategies, keep \in 1..MaxKeep :
      \E costs \in [1..n -> 1..MaxCost] :
        /\ args = Call(FALSE, 1, "binary", << >>, SteadyConfig, SmallStep, IterationsPerCell)
        /\ result = [futures |-> n, costs |-> costs, strategy |-> strategy, keep |-> keep,
                     done |-> {}, cancelled |-> {}, results |-> << >>,
                     winning |-> << >>, frames |-> << >>]
        /\ lineage = LineageM(args.simulation)
        /\ pc = "submitted"
        /\ window_start = 0
        /\ synthimages = << >>
        /\ cellmaps = << >>
        /\ run_count = 0
        /\ iteration = 0
        /\ bad_count = 0
        /\ pbad_total = 0
        /\ frame_index = NoFrame
        /\ change = Idle
        /\ applied = 0
        /\ outputs = << >>
        /\ error = ""

OnlyDispatch ==
    UNCHANGED << args, lineage, synthimages, cellmaps, window_start, run_count, iteration,
                 bad_count, pbad_total, frame_index, change, applied, outputs >>

\* a task finishes while dask.distributed.wait(futures, 360) waits
FinishTask ==
    \E f \in 1..result.futures :
      /\ pc = "submitted"
      /\ f \notin result.done
      /\ result' = [result EXCEPT !.done = @ \cup { f }]
      /\ UNCHANGED << pc, error >>
      /\ OnlyDispatch

\* lines 558-564: the futures that are done give their result, in the order of
\* submission; the others are cancelled
GatherResults ==
    /\ pc = "submitted"
    /\ result' = [result EXCEPT
                    !.results = SelectSeq([f \in 1..result.futures |-> f],
                                          LAMBDA f : f \in result.done),
                    !.cancelled = (1..result.futures) \ result.done]
    /\ pc' = "gathered"
    /\ UNCHANGED error
    /\ OnlyDispatch

\* lines 566-585: the strategy orders the results, the first `keep` are added as
\* the next frame
SelectWinning ==
    /\ pc = "gathered"
    /\ IF result.strategy \notin { "best-wins", "worst-wins", "extreme-wins" }
       THEN /\ pc' = "raised"
            /\ error' = "ValueError"
            /\ result' = result
       ELSE LET ordered ==
                  IF result.strategy \in { "best-wins", "worst-wins" }
                  THEN sorted(result.results, result.costs,
                              result.strategy = "worst-wins")
                  ELSE chain_zip(sorted(result.results, result.costs, FALSE),
                                 sorted(result.results, result.costs, TRUE))
                winning == Winning(ordered, result.keep)
            IN  IF winning = << >>
                THEN \* line 583: winning[0][1]
                     /\ pc' = "raised"
                     /\ error' = "IndexError"
                     /\ result' = [result EXCEPT !.winning = winning]
                ELSE /\ pc' = "added"
                     /\ error' = error
                     /\ result' = [result EXCEPT !.winning = winning,
                                                 !.frames = Append(@, winning)]
    /\ OnlyDispatch

NextDispatch == FinishTask \/ GatherResults \/ SelectWinning

SpecDispatch == InitDispatch /\ [][NextDispatch]_vars

\* the costs of a list of results
CostsOf(results) == [k \in 1..Len(results) |-> result.costs[results[k]]]

\* the list holds no result twice
NoRepeat(results) ==
    \A j \in 1..Len(results) : \A k \in 1..Len(results) :
      results[j] = results[k] => j = k

\* C22: once the dispatcher has selected, an unknown strategy has raised an
\* error; otherwise the kept results are results of completed tasks, as many as
\* min(keep, number of completed results), each a different result, all of them
\* added as the next frame; best-wins keeps the lowest costs in ascending order,
\* worst-wins the highest costs in descending order, extreme-wins alternates
\* the k-th best and the k-th worst.
C22_DispatcherSelection ==
    pc \in { "added", "raised" } =>
      LET r == result
          completed == r.done
          kept == { r.winning[k] : k \in 1..Len(r.winning) }
          others == completed \ kept
      IN  IF r.strategy \notin { "best-wins", "worst-wins", "extreme-wins" }
          THEN pc = "raised"
          ELSE /\ pc = "added"
               /\ r.frames = << r.winning >>
               /\ r.cancelled \cap kept = {}
               /\ kept \subseteq completed
               /\ Len(r.winning) = Min(r.keep, Cardinality(completed))
               /\ NoRepeat(r.winning)
               /\ r.strategy = "best-wins" =>
                    /\ \A k \in 1..(Len(r.winning) - 1) :
                         r.costs[r.winning[k]] <= r.costs[r.winning[k + 1]]
                    /\ \A f \in kept : \A g \in others : r.costs[f] <= r.costs[g]
               /\ r.strategy = "worst-wins" =>
                    /\ \A k \in 1..(Len(r.winning) - 1) :
                         r.costs[r.winning[k]] >= r.costs[r.winning[k + 1]]
                    /\ \A f \in kept : \A g \in others : r.costs[f] >= r.costs[g]
               /\ r.strategy = "extreme-wins" =>
                    \A k \in 1..Len(r.winning) :
                      r.costs[r.winning[k]] =
                        IF k % 2 = 1
                        THEN CostsOf(sorted(r.results, r.costs, FALSE))[(k + 1) \div 2]
                        ELSE CostsOf(sorted(r.results, r.costs, TRUE))[k \div 2]

\* C23: drawing a cell whose region, with the diffraction padding, extends beyond
\* an edge of the image does not raise, and modifies the pixels the cell covers
\* that lie inside the image and no other pixel.
C23_DrawClampsToImage ==
    (pc \in { "drawn", "raised" } /\ result \in DrawnCells) =>
      LET type == args.simulation.image_type
          reach == (RegionLeft(result) - Expansion(type))
                     ..(RegionRight(result) + Expansion(type) - 1)
      IN  /\ pc = "drawn"
          /\ \A p \in 1..DrawShape[2] :
               /\ (p - 1) \notin reach => synthimages[1][p] = FreshRow(type)[p]
               /\ (type = "binary" /\ (p - 1) \in Covered(result)) =>
                    synthimages[1][p] = FreshRow(type)[p] + 1000

\* ---------------------------------------------------------------------------
\* check_constraints with an empty pair list, on cells at and around each bound
\* ---------------------------------------------------------------------------
RuleConfig(type) ==
    Call(FALSE, 1, type, << >>, SteadyConfig, SmallStep, IterationsPerCell).config

RuleShape == << 1600, 4000 >>

\* a cell inside every bound
RuleCellInside == Bacilli(NameB, 800, 800, 400, 1600, 0, NoAlpha)

\* cells whose attributes lie one tick outside, on, and one tick inside the bounds
RuleCells ==
    { [Bacilli(NameA, x, y, w, l, 0, NoAlpha) EXCEPT !.opacity = o] :
        x \in { -1, 0, RuleShape[2] - 1, RuleShape[2] },
        y \in { -1, 0, RuleShape[1] - 1, RuleShape[1] },
        w \in { SteadyConfig.minWidth - 1, SteadyConfig.minWidth,
                SteadyConfig.maxWidth, SteadyConfig.maxWidth + 1 },
        l \in { SteadyConfig.minLength, SteadyConfig.minLength + 1,
                SteadyConfig.maxLength - 1, SteadyConfig.maxLength },
        o \in { -1, 0, 1 } }

RuleCellLists ==
    { << c >> : c \in RuleCells }
      \cup { << RuleCellInside, c >> : c \in RuleCells }
      \cup { << c, RuleCellInside >> : c \in RuleCells }

InitCellRule ==
    \E cells \in RuleCellLists, type \in ImageTypes :
      /\ args = Call(FALSE, 1, type, << >>, SteadyConfig, SmallStep, IterationsPerCell)
      /\ result = [cells |-> cells, returned |-> None]
      /\ lineage = LineageM(args.simulation)
      /\ pc = "cells"
      /\ window_start = 0
      /\ synthimages = << >>
      /\ cellmaps = << >>
      /\ run_count = 0
      /\ iteration = 0
      /\ bad_count = 0
      /\ pbad_total = 0
      /\ frame_index = NoFrame
      /\ change = Idle
      /\ applied = 0
      /\ outputs = << >>
      /\ error = ""

\* check_constraints(config, imageshape, cells, [])
CheckCells ==
    /\ pc = "cells"
    /\ result' = [result EXCEPT
                    !.returned = check_constraints(args.config, args.shape, result.cells,
                                                   << >>)]
    /\ pc' = "cells_checked"
    /\ UNCHANGED << args, lineage, synthimages, cellmaps, window_start, run_count,
                    iteration, bad_count, pbad_total, frame_index, change, applied,
                    outputs, error >>

NextCellRule == CheckCells

SpecCellRule == InitCellRule /\ [][NextCellRule]_vars

\* the per-cell rules as stated: a cell is rejected when its centre is outside
\* the image, its width is below min_width or above max_width, its length is
\* not strictly between min_length and max_length, or, in graySynthetic, its
\* opacity is not positive
CellRejected(config, imageshape, c) ==
    \/ ~(0 <= c.x /\ c.x < imageshape[2])
    \/ ~(0 <= c.y /\ c.y < imageshape[1])
    \/ c.width < config.minWidth
    \/ c.width > config.maxWidth
    \/ c.length <= config.minLength
    \/ c.length >= config.maxLength
    \/ (config.image_type = "graySynthetic" /\ c.opacity <= 0)

\* C24: with an empty pair list, check_constraints returns false exactly when
\* some cell is rejected by the per-cell rules as stated, and true otherwise.
C24_PerCellRules ==
    pc = "cells_checked" =>
      (result.returned <=>
         ~(\E k \in 1..Len(result.cells) :
             CellRejected(args.config, args.shape, result.cells[k])))

\* ---------------------------------------------------------------------------
\* check_constraints on (prior, current) pairs of cells that pass the per-cell
\* rules, the current cell displaced, turned and grown around each bound
\* ---------------------------------------------------------------------------
RulePairs ==
    { << RuleCellInside,
         [RuleCellInside EXCEPT !.x = @ + dx, !.y = @ + dy, !.rotation = @ + dr,
                                !.length = @ + dl] >> :
        dx \in { -400, -300, 0, 300, 400 },
        dy \in { -400, -300, 0, 300, 400 },
        dr \in { -2, -1, 0, 1, 2 },
        dl \in { SteadyConfig.minGrowth, SteadyConfig.minGrowth + 1, 0,
                 SteadyConfig.maxGrowth - 1, SteadyConfig.maxGrowth } }

RulePairLists ==
    { << pr >> : pr \in RulePairs }
      \cup { << << RuleCellInside, RuleCellInside >>, pr >> : pr \in RulePairs }

InitPairRule ==
    \E pairs \in RulePairLists :
      /\ args = Call(FALSE, 1, "binary", << >>, SteadyConfig, SmallStep, IterationsPerCell)
      /\ result = [pairs |-> pairs, returned |-> None]
      /\ lineage = LineageM(args.simulation)
      /\ pc = "pairs"
      /\ window_start = 0
      /\ synthimages = << >>
      /\ cellmaps = << >>
      /\ run_count = 0
      /\ iteration = 0
      /\ bad_count = 0
      /\ pbad_total = 0
      /\ frame_index = NoFrame
      /\ change = Idle
      /\ applied = 0
      /\ outputs = << >>
      /\ error = ""

\* check_constraints(config, imageshape, cells, pairs), cells the current cells
CheckPairs ==
    /\ pc = "pairs"
    /\ result' = [result EXCEPT
                    !.returned =
                      check_constraints(args.config, args.shape,
                                        [k \in 1..Len(result.pairs) |-> result.pairs[k][2]],
                                        result.pairs)]
    /\ pc' = "pairs_checked"
    /\ UNCHANGED << args, lineage, synthimages, cellmaps, window_start, run_count,
                    iteration, bad_count, pbad_total, frame_index, change, applied,
                    outputs, error >>

NextPairRule == CheckPairs

SpecPairRule == InitPairRule /\ [][NextPairRule]_vars

\* the pair rules as stated, the displacement being the Euclidean distance of
\* the centres: sqrt(dx^2 + dy^2) > maxSpeed / framesPerSecond, squared
PairRejected(config, pr) ==
    LET dx == pr[2].x - pr[1].x
        dy == pr[2].y - pr[1].y
        fps == config.framesPerSecond
    IN  \/ (dx * dx + dy * dy) * fps * fps > config.maxSpeed * config.maxSpeed
        \/ Abs(pr[2].rotation - pr[1].rotation) * fps > config.maxSpin
        \/ ~(config.minGrowth < pr[2].length - pr[1].length
             /\ pr[2].length - pr[1].length < config.maxGrowth)

\* C25: on cells that pass the per-cell rules, check_constraints returns false
\* exactly when some pair is rejected by the pair rules as stated; a pair
\* displaced by (+d, -d) with d * sqrt(2) above the limit is rejected.
C25_PairRules ==
    pc = "pairs_checked" =>
      (result.returned <=>
         ~(\E k \in 1..Len(result.pairs) : PairRejected(args.config, result.pairs[k])))

\* the names registered in frame k of a lineage
NamesIn(lin, k) == DOMAIN lin.frames[k + 1].node_map

\* the step of the driver that applies the pending Change of the given kind
Applies(kind) ==
    /\ pc = "decide"
    /\ change.obj.kind = kind
    /\ applied' = applied + 1
    /\ pc' = "anneal"

\* C26: a Split that the driver evaluates as valid is on a node with exactly one
\* child.  When it is applied on node n with child c, the child frame's node map
\* loses c's name and gains the two names c.name + '0' and c.name + '1', n's
\* children become the two new nodes in that order with parent n, and every
\* former grandchild is the child of the registered new node that has its name.
C26_SplitApply ==
    /\ [](pc = "decide" /\ change.obj.kind = "split" =>
            Len(lineage.nodes[change.obj.node].children) = 1)
    /\ [][Applies("split") =>
            LET n == change.obj.node
                k == change.obj.frame
                c == lineage.nodes[n].children[1]
                name == lineage.nodes[c].cell.name
                name0 == Append(name, "0")
                name1 == Append(name, "1")
                map == lineage'.frames[k + 1].node_map
            IN  /\ NamesIn(lineage', k) = (NamesIn(lineage, k) \ { name }) \cup { name0, name1 }
                /\ Cardinality(NamesIn(lineage', k)) = Cardinality(NamesIn(lineage, k)) + 1
                /\ lineage'.nodes[n].children = << map[name0], map[name1] >>
                /\ lineage'.nodes[map[name0]].parent = n
                /\ lineage'.nodes[map[name1]].parent = n
                /\ lineage'.nodes[map[name0]].cell.name = name0
                /\ lineage'.nodes[map[name1]].cell.name = name1
                /\ \A gc \in { grandchildren(lineage.nodes, n)[j] :
                                 j \in 1..Len(grandchildren(lineage.nodes, n)) } :
                     LET p == lineage'.nodes[gc].parent
                     IN  /\ p \in { map[name0], map[name1] }
                         /\ lineage'.nodes[p].cell.name = lineage'.nodes[gc].cell.name
                         /\ lineage'.nodes[p].children = << gc >>]_vars

\* the members of a sequence
Range(s) == { s[j] : j \in 1..Len(s) }

\* C27: a Combination that the driver evaluates as valid is on a node with
\* exactly two children and at most two grandchildren.  When it is applied on
\* node n, the apply completes, both children's names leave the child frame's
\* node map, one node named with the children's name minus its last character
\* is registered in their place as n's only child, and the former grandchildren
\* are the children of that node, with it as their parent.
C27_CombinationApply ==
    /\ [](pc = "decide" /\ change.obj.kind = "combine" =>
            /\ Len(lineage.nodes[change.obj.node].children) = 2
            /\ Len(grandchildren(lineage.nodes, change.obj.node)) <= 2)
    /\ [][(pc = "decide" /\ change.obj.kind = "combine" /\ applied' = applied + 1) =>
            LET n == change.obj.node
                k == change.obj.frame
                c1 == lineage.nodes[n].children[1]
                c2 == lineage.nodes[n].children[2]
                name1 == lineage.nodes[c1].cell.name
                name2 == lineage.nodes[c2].cell.name
                gcs == grandchildren(lineage.nodes, n)
                map == lineage'.frames[k + 1].node_map
            IN  /\ pc' = "anneal"
                /\ NamesIn(lineage', k) =
                     (NamesIn(lineage, k) \ { name1, name2 }) \cup { DropLast(name1) }
                /\ Cardinality(NamesIn(lineage', k)) = Cardinality(NamesIn(lineage, k)) - 1
                /\ DropLast(name1) = DropLast(name2)
                /\ lineage'.nodes[n].children = << map[DropLast(name1)] >>
                /\ lineage'.nodes[map[DropLast(name1)]].parent = n
                /\ lineage'.nodes[map[DropLast(name1)]].cell.name = DropLast(name1)
                /\ lineage'.nodes[map[DropLast(name1)]].children = gcs
                /\ \A gc \in Range(gcs) : lineage'.nodes[gc].parent = map[DropLast(name1)]]_vars

\* C28: a BackgroundOffset that the driver evaluates as valid has a positive new
\* background color, and the background color of every frame, positive at the
\* start, stays positive.
C28_BackgroundStaysPositive ==
    /\ (pc = "decide" /\ change.obj.kind = "background_offset") => change.obj.newbg > 0
    /\ \A k \in 1..Len(lineage.frames) :
         lineage.frames[k].simulation_config.background_color > 0

\* ---------------------------------------------------------------------------
\* The simulation configs as the dict objects they are: heap[ref] is a dict,
\* a frame holds the reference of its simulation_config, GlobalConfig is
\* config['simulation'].  A BackGround_luminosity_offset keeps the reference
\* of the frame's dict (old_simulation_config) and of a copy of it
\* (new_simulation_config).
\* ---------------------------------------------------------------------------
MaxConfigFrames == 3

MaxConfigs == 7

GlobalConfig == 1

\* a faulty FrameM.__init__, which keeps the dict it is given
SharedConfig(heap, ref) == [heap |-> heap, ref |-> ref]

\* simulation_config.copy(): a new dict with the same entries
CopiedConfig(heap, ref) == [heap |-> Append(heap, heap[ref]), ref |-> Len(heap) + 1]

\* generate_synthetic_image(frame.nodes, shape, simulation_config) of frame k
Rendered(k, simulation_config) == << "synth", k, simulation_config.background_color >>

\* FrameM(simulation_config, prev), with the synth image and cell map the driver
\* keeps for the frame
ConfigFrame(k, ref, heap) ==
    [simulation_config |-> ref, synth |-> Rendered(k, heap[ref]),
     cellmap |-> << "cellmap", k >>, node_map |-> << "node_map", k >>]

InitConfig ==
    /\ args = Call(FALSE, 1, "graySynthetic", << >>, SteadyConfig, SmallStep, IterationsPerCell)
    /\ LET first == CopiedConfig(<< args.simulation >>, GlobalConfig)
       IN  result = [heap |-> first.heap,
                     frames |-> << ConfigFrame(0, first.ref, first.heap) >>,
                     change |-> None, applied |-> 0]
    /\ lineage = LineageM(args.simulation)
    /\ pc = "configs"
    /\ window_start = 0
    /\ synthimages = << >>
    /\ cellmaps = << >>
    /\ run_count = 0
    /\ iteration = 0
    /\ bad_count = 0
    /\ pbad_total = 0
    /\ frame_index = NoFrame
    /\ change = Idle
    /\ applied = 0
    /\ outputs = << >>
    /\ error = ""

OnlyConfig ==
    UNCHANGED << args, lineage, synthimages, cellmaps, window_start, run_count, iteration,
                 bad_count, pbad_total, frame_index, change, applied, outputs, error >>

\* LineageM.forward and the driver's generate_synthetic_image for the new frame
ForwardConfig ==
    /\ pc = "configs"
    /\ Len(result.frames) < MaxConfigFrames
    /\ Len(result.heap) < MaxConfigs
    /\ LET last == result.frames[Len(result.frames)]
           new == CopiedConfig(result.heap, last.simulation_config)
       IN  result' = [result EXCEPT
                        !.heap = new.heap,
                        !.frames = Append(@, ConfigFrame(Len(result.frames), new.ref,
                                                         new.heap))]
    /\ pc' = pc
    /\ OnlyConfig

\* BackGround_luminosity_offset.__init__ on frame k (frame_index > 0)
ProposeOffset ==
    \E k \in 1..(Len(result.frames) - 1), offset \in { -1, 1 } :
      /\ pc = "configs"
      /\ Len(result.heap) < MaxConfigs
      /\ LET old == result.frames[k + 1].simulation_config
             new == CopiedConfig(result.heap, old)
             heap == [new.heap EXCEPT ![new.ref].background_color = @ + offset]
         IN  result' = [result EXCEPT
                          !.heap = heap,
                          !.change = [frame |-> k, old_simulation_config |-> old,
                                      new_simulation_config |-> new.ref,
                                      new_synthimage |-> Rendered(k, heap[new.ref])]]
      /\ pc' = "offset"
      /\ OnlyConfig

\* BackGround_luminosity_offset.apply
ApplyOffset ==
    /\ pc = "offset"
    /\ LET ch == result.change
       IN  result' = [result EXCEPT
                        !.frames[ch.frame + 1].synth = ch.new_synthimage,
                        !.heap[ch.old_simulation_config].background_color =
                           result.heap[ch.new_simulation_config].background_color,
                        !.change = None,
                        !.applied = @ + 1]
    /\ pc' = "configs"
    /\ OnlyConfig

\* the Change is invalid or the roll rejects it
DropOffset ==
    /\ pc = "offset"
    /\ result' = [result EXCEPT !.change = None]
    /\ pc' = "configs"
    /\ OnlyConfig

NextConfig == ForwardConfig \/ ProposeOffset \/ ApplyOffset \/ DropOffset

SpecConfig == InitConfig /\ [][NextConfig]_vars

\* background.color of frame k in a state r
ColorOf(r, k) == r.heap[r.frames[k + 1].simulation_config].background_color

\* C29: applying a BackgroundOffset on frame k sets background.color of frame
\* k's own config to the new color and replaces frame k's synth image by the
\* re-render; the configs of all other frames and config['simulation'] keep
\* their values, and no cell map or node map changes.  A frame appended later
\* has the color of the last frame at the time it is appended.
C29_OffsetLocalToFrame ==
    /\ [][(pc = "offset" /\ result'.applied # result.applied) =>
            LET k == result.change.frame
            IN  /\ ColorOf(result', k) =
                     result.heap[result.change.new_simulation_config].background_color
                /\ result'.frames[k + 1].synth = Rendered(k, result'.heap[result'.frames[k + 1].simulation_config])
                /\ result'.heap[GlobalConfig] = result.heap[GlobalConfig]
                /\ result.heap[GlobalConfig] = args.simulation
                /\ Len(result'.frames) = Len(result.frames)
                /\ \A j \in 0..(Len(result.frames) - 1) :
                     /\ result'.frames[j + 1].cellmap = result.frames[j + 1].cellmap
                     /\ result'.frames[j + 1].node_map = result.frames[j + 1].node_map
                     /\ j # k => /\ ColorOf(result', j) = ColorOf(result, j)
                                 /\ result'.frames[j + 1] = result.frames[j + 1]]_vars
    /\ [][(pc = "configs" /\ Len(result'.frames) = Len(result.frames) + 1) =>
            /\ ColorOf(result', Len(result.frames)) = ColorOf(result, Len(result.frames) - 1)
            /\ \A j \in 0..(Len(result.frames) - 1) : ColorOf(result', j) = ColorOf(result, j)]_vars

\* an offset was applied on frame 1 after frame 2 was appended, and frame 2
\* and config['simulation'] have the color frame 1 had before
C29_Witness ==
    /\ pc = "configs"
    /\ Len(result.frames) = 3
    /\ result.applied = 1
    /\ ColorOf(result, 1) # ColorOf(result, 2)
    /\ ColorOf(result, 2) = result.heap[GlobalConfig].background_color

\* ---------------------------------------------------------------------------
\* Perturbation.__init__, the sampling loops step by step, on the only cell
\* of a one-frame lineage.  p_decision holds the per-attribute probabilities
\* and p the uniform draws, in thousandths, for the attributes x and length.
\* ---------------------------------------------------------------------------
SampledAttributes == { "x", "length" }

\* lines 196-199: p_decision has one more entry, prob.opacity, in graySynthetic
DecisionAttributes(type) ==
    IF type = "graySynthetic" THEN SampledAttributes \cup { "opacity" }
    ELSE SampledAttributes

Probabilities == { 0, 500, 1000 }

\* the values np.random.uniform(0.0, 1.0) can return, 0.0 among them
Draws == { 0, 250, 750 }

\* the redraws of the inner loop are counted, up to this number and then again
\* from 0
MaxRedraws == 2

\* a cell 5 pixels from the right edge: x + 10 pixels is outside the image, and
\* no length 50 pixels away is inside the bounds
CellAtEdge == Bacilli(NameA, 3800, 800, 400, 1600, 0, NoAlpha)

SampledNode == lineage.frames[1].node_map[NameA]

\* the attributes the draws p select
Selected(p, p_decision) == { a \in DOMAIN p : p[a] < p_decision[a] }

\* (p > p_decision).all()
AllAbove(p, p_decision) == \A a \in DOMAIN p : p[a] > p_decision[a]

InitSampling ==
    \E type \in { "binary", "graySynthetic" } :
    \E p_decision \in [DecisionAttributes(type) -> Probabilities],
       p \in [DecisionAttributes(type) -> Draws] :
      /\ args = Call(FALSE, 1, type, << CellAtEdge >>, SteadyConfig, LargeStep,
                     IterationsPerCell)
      /\ lineage = build_initial_lineage(args.simulation, args.colony)
      /\ LET img == generate_synthetic_image(lineage, FrameNodes(lineage.frames[1]),
                                             lineage.frames[1].simulation_config)
         IN  synthimages = << img.synth >> /\ cellmaps = << img.cellmap >>
      /\ result = [p_decision |-> p_decision, p |-> p, first |-> None,
                   replacement_cell |-> CellAtEdge, valid |-> FALSE, badcount |-> 0,
                   attempts |-> 0, redraws |-> 0]
      /\ pc = "sampling"
      /\ window_start = 0
      /\ run_count = 0
      /\ iteration = 0
      /\ bad_count = 0
      /\ pbad_total = 0
      /\ frame_index = 0
      /\ change = Idle
      /\ applied = 0
      /\ outputs = << >>
      /\ error = ""

OnlySampling ==
    UNCHANGED << args, lineage, synthimages, cellmaps, window_start, run_count, iteration,
                 bad_count, pbad_total, frame_index, change, applied, outputs, error >>

InSamplingLoop == pc = "sampling" /\ ~result.valid /\ result.badcount < MaxAttempts

\* line 202: the inner loop draws p again, and some draw falls below its probability
ResampleBelow ==
    \E p \in [DOMAIN result.p -> Draws] :
      /\ InSamplingLoop
      /\ AllAbove(result.p, result.p_decision)
      /\ Selected(p, result.p_decision) # {}
      /\ result' = [result EXCEPT
                       !.p = p,
                       !.redraws = IF @ < MaxRedraws THEN @ + 1 ELSE 0]
      /\ pc' = pc
      /\ OnlySampling

\* line 202: the inner loop draws p again, and no draw falls below its probability
ResampleNotBelow ==
    \E p \in [DOMAIN result.p -> Draws] :
      /\ InSamplingLoop
      /\ AllAbove(result.p, result.p_decision)
      /\ Selected(p, result.p_decision) = {}
      /\ result' = [result EXCEPT
                       !.p = p,
                       !.redraws = IF @ < MaxRedraws THEN @ + 1 ELSE 0]
      /\ pc' = pc
      /\ OnlySampling

\* lines 207-223: new_cell, the one object every attempt writes, takes the
\* target's value plus an increment in each selected attribute; the opacity is
\* not among them
Resampled(new_cell, cell, S, d) ==
    [new_cell EXCEPT
       !.x = IF "x" \in S THEN cell.x + d["x"] * Step.x ELSE @,
       !.length = IF "length" \in S THEN cell.length + d["length"] * Step.length ELSE @]

\* lines 205-229: one attempt: increments for the selected attributes, is_valid
AttemptSample ==
    \E d \in [SampledAttributes -> Signs] :
      /\ InSamplingLoop
      /\ ~AllAbove(result.p, result.p_decision)
      /\ LET sample == Resampled(result.replacement_cell, lineage.nodes[SampledNode].cell,
                                 Selected(result.p, result.p_decision), d)
             first == IF result.first = None THEN sample ELSE result.first
             valid == PerturbationValid(lineage.nodes, SampledNode, first, sample)
         IN  result' = [result EXCEPT
                          !.replacement_cell = sample,
                          !.first = first,
                          !.valid = valid,
                          !.attempts = @ + 1,
                          !.badcount = IF valid THEN @ ELSE @ + 1]
      /\ pc' = pc
      /\ OnlySampling

\* line 201: the outer loop ends
EndSampling ==
    /\ pc = "sampling"
    /\ result.valid \/ result.badcount >= MaxAttempts
    /\ pc' = "constructed"
    /\ UNCHANGED result
    /\ OnlySampling

\* optimize, lines 632-644: is_valid, then the roll, then apply
DecideSampled ==
    /\ pc = "constructed"
    /\ LET ch == [NoChange EXCEPT
                    !.kind = "perturbation", !.node = SampledNode, !.frame = 0,
                    !.new = << result.replacement_cell >>,
                    !.valid = PerturbationValid(lineage.nodes, SampledNode, result.first,
                                                result.replacement_cell)]
       IN  IF ~Passes(ch)
           THEN /\ pc' = "abandoned"
                /\ UNCHANGED << lineage, synthimages, cellmaps, applied >>
           ELSE \E accepted \in BOOLEAN :
                  LET after == IF accepted THEN apply(State, ch) ELSE Kept(State)
                  IN  /\ lineage' = after.lineage
                      /\ synthimages' = after.synthimages
                      /\ cellmaps' = after.cellmaps
                      /\ applied' = IF accepted THEN 1 ELSE 0
                      /\ pc' = IF accepted THEN "applied" ELSE "kept"
    /\ UNCHANGED << args, window_start, run_count, iteration, bad_count, pbad_total,
                    frame_index, change, outputs, result, error >>

NextSampling ==
    \/ ResampleBelow
    \/ ResampleNotBelow
    \/ AttemptSample
    \/ EndSampling
    \/ DecideSampled

\* every loop body and the driver go on; a draw below a positive probability
\* comes up sooner or later
SpecSampling ==
    /\ InitSampling
    /\ [][NextSampling]_vars
    /\ WF_vars(ResampleBelow)
    /\ WF_vars(ResampleNotBelow)
    /\ WF_vars(AttemptSample)
    /\ WF_vars(EndSampling)
    /\ WF_vars(DecideSampled)

\* the safety part of C30
SamplingBounded ==
    /\ [](pc \in { "sampling", "constructed", "abandoned", "applied", "kept" } =>
            /\ result.attempts <= MaxAttempts
            /\ (pc # "sampling" /\ ~result.valid) => result.attempts = MaxAttempts
            /\ pc = "abandoned" =>
                 /\ ~result.valid
                 /\ lineage = build_initial_lineage(args.simulation, args.colony)
                 /\ applied = 0
            /\ pc = "applied" => result.valid)
    /\ [][(pc = "sampling" /\ result.valid) => result' = result]_vars
    /\ [][pc' = "abandoned" => UNCHANGED << lineage, synthimages, cellmaps >>]_vars

\* C30: constructing a Perturbation makes at most 50 sampling attempts and stops
\* at the first valid one; after 50 invalid attempts is_valid is false, the
\* driver does not apply it and the lineage and the images are unchanged; and
\* for every configuration of the per-attribute probabilities the construction
\* terminates.
C30_SamplingTerminates ==
    /\ SamplingBounded
    /\ <>(pc \in { "abandoned", "applied", "kept" })

\* a step of the sampling loop that is one attempt
IsAttempt == pc = "sampling" /\ result'.attempts = result.attempts + 1

\* the attributes of the cell that the attempt modifies
Modified == Selected(result.p, result.p_decision) \cap Attributes

\* the parts of C31 about what an attempt leaves alone
AttemptKeepsTheRest ==
    [][IsAttempt =>
         LET cell == lineage.nodes[SampledNode].cell
         IN  /\ \A a \in Attributes \ Modified : result'.replacement_cell[a] = cell[a]
             /\ result'.replacement_cell.name = cell.name
             /\ lineage' = lineage]_vars

\* C31: in every sampling attempt of a Perturbation the set of attributes
\* selected for modification among x, y, width, length and rotation is not
\* empty; every attribute that is not selected keeps the target's value in the
\* replacement cell, the replacement keeps the target's name, and the target
\* node's cell is not modified.
C31_SomeAttributeSelected ==
    /\ [][IsAttempt => Modified # {}]_vars
    /\ AttemptKeepsTheRest


\* ---------------------------------------------------------------------------
\* Perturbation.__init__ on a node with two children: the sampling attempts and
\* the is_valid the driver reads, with the list get_checks keeps.  The lineage
\* is the one optimize has after copy_forward and an applied Split of the
\* frame-1 cell.
\* ---------------------------------------------------------------------------
DividingCells ==
    { Bacilli(NameA, 3800, 800, 400, 2000, 0, NoAlpha),
      Bacilli(NameA, 2000, 800, 400, 1600, 0, NoAlpha) }

\* frames 0 and 1 of a run in which the Split of the node's child was applied
Divided(st, alpha) ==
    LET id == st.lineage.frames[1].node_map[NameA]
    IN  apply(st, Split(st.lineage, 1, id, alpha))

DividedNode == lineage.frames[1].node_map[NameA]

InitChecks ==
    \E cell \in DividingCells, config \in { SteadyConfig, GrowingConfig },
       alpha \in Alphas, S \in (SUBSET SampledAttributes) \ { {} } :
      /\ args = Call(FALSE, 1, "binary", << cell >>, config, SmallStep, IterationsPerCell)
      /\ LET lin == copy_forward(build_initial_lineage(args.simulation, args.colony))
             img == [k \in 1..2 |->
                       generate_synthetic_image(lin, FrameNodes(lin.frames[k]),
                                                lin.frames[k].simulation_config)]
             st == [lineage |-> lin, synthimages |-> << img[1].synth, img[2].synth >>,
                    cellmaps |-> << img[1].cellmap, img[2].cellmap >>]
             id == lin.frames[1].node_map[NameA]
         IN  /\ Split(lin, 1, id, alpha).valid
             /\ lineage = Divided(st, alpha).lineage
             /\ synthimages = Divided(st, alpha).synthimages
             /\ cellmaps = Divided(st, alpha).cellmaps
      /\ result = [selected |-> S, first |-> None, replacement_cell |-> cell,
                   valid |-> FALSE, badcount |-> 0, attempts |-> 0, reads |-> 0]
      /\ pc = "sampling"
      /\ window_start = 0
      /\ run_count = 0
      /\ iteration = 0
      /\ bad_count = 0
      /\ pbad_total = 0
      /\ frame_index = 0
      /\ change = Idle
      /\ applied = 0
      /\ outputs = << >>
      /\ error = ""

\* lines 207-229 on the node with two children
AttemptOnDivided ==
    \E d \in [SampledAttributes -> Signs] :
      /\ pc = "sampling"
      /\ ~result.valid
      /\ result.badcount < MaxAttempts
      /\ LET sample == Resampled(result.replacement_cell, lineage.nodes[DividedNode].cell,
                                 result.selected, d)
             first == IF result.first = None THEN sample ELSE result.first
             valid == PerturbationValid(lineage.nodes, DividedNode, first, sample)
         IN  result' = [result EXCEPT
                          !.replacement_cell = sample,
                          !.first = first,
                          !.valid = valid,
                          !.attempts = @ + 1,
                          !.badcount = IF valid THEN @ ELSE @ + 1]
      /\ pc' = pc
      /\ OnlySampling

\* line 632: the driver reads is_valid of the constructed Perturbation
ReadIsValid ==
    /\ pc = "sampling"
    /\ result.valid \/ result.badcount >= MaxAttempts
    /\ result' = [result EXCEPT
                    !.valid = PerturbationValid(lineage.nodes, DividedNode, result.first,
                                                result.replacement_cell),
                    !.reads = @ + 1]
    /\ pc' = "read"
    /\ OnlySampling

NextChecks == AttemptOnDivided \/ ReadIsValid

SpecChecks == InitChecks /\ [][NextChecks]_vars

\* the checks Perturbation.get_checks would build from the current replacement
\* cell alone
FreshChecks(nodes, id, repl) == PerturbationChecks(nodes, id, repl, repl)

\* is_valid as it would be with the pairs of the current replacement cell
FreshValid(nodes, id, repl) ==
    check_constraints(Config, ImageShape, << repl >>, FreshChecks(nodes, id, repl))

\* C32: each evaluation of Perturbation.is_valid checks the current replacement
\* cell against pairs built from its current parameters: with the parent, and
\* with each child, the children of a division against the halves of a split of
\* the current replacement; on the 2nd to 50th attempt the child pairs are
\* built from that attempt's sample.
C32_ChecksFollowSample ==
    [](result.attempts > 0 =>
         result.valid = FreshValid(lineage.nodes, DividedNode, result.replacement_cell))

\* ---------------------------------------------------------------------------
\* The gates in front of a split: the change selection of optimize
\* (global_optimization.py) and bacilli_split (optimization.py), for a selected
\* cell of a given length, a change option, a frame index and a uniform roll.
\* ---------------------------------------------------------------------------
\* the lengths of the selected cell, in ticks: 10, 14, 30, 45 and 50 pixels
GateLengths == { 400, 560, 1200, 1800, 2000 }

\* optimization.split_proba(length), in thousandths, for the lengths above:
\* sin((length - 14) / (2 pi^2)) on [14, 45], else 0
split_proba(length) ==
    IF 14 * Units.pixel <= length /\ length <= 45 * Units.pixel
    THEN CASE length = 560 -> 0
           [] length = 1200 -> 725
           [] length = 1800 -> 1000
    ELSE 0

ChangeOptions == { "split", "perturbation", "combine", "background_offset" }

GateFrames == 0..2

InitGate ==
    \E type \in { "binary", "graySynthetic" }, length \in GateLengths, roll \in Rolls,
       option \in ChangeOptions, fi \in GateFrames :
      /\ args = Call(FALSE, 1, type, << CellA >>, SteadyConfig, SmallStep, IterationsPerCell)
      /\ lineage = LineageM(args.simulation)
      /\ result = [length |-> length, roll |-> roll, change_option |-> option,
                   change |-> "unset", split_attempted |-> FALSE]
      /\ pc = "gate"
      /\ frame_index = fi
      /\ window_start = 0
      /\ synthimages = << >>
      /\ cellmaps = << >>
      /\ run_count = 0
      /\ iteration = 0
      /\ bad_count = 0
      /\ pbad_total = 0
      /\ change = Idle
      /\ applied = 0
      /\ outputs = << >>
      /\ error = ""

OnlyGate ==
    UNCHANGED << args, lineage, synthimages, cellmaps, window_start, run_count, iteration,
                 bad_count, pbad_total, frame_index, change, applied, outputs, error >>

\* global_optimization.py, lines 618-630: the class of the Change instantiated
ChooseChange ==
    /\ pc = "gate"
    /\ result' = [result EXCEPT
         !.change =
            IF /\ result.change_option = "split"
               /\ result.roll < split_proba(result.length)
               /\ frame_index > 0
            THEN "split"
            ELSE IF result.change_option = "perturbation" THEN "perturbation"
            ELSE IF result.change_option = "combine" /\ frame_index > 0 THEN "combine"
            ELSE IF /\ result.change_option = "background_offset"
                    /\ frame_index > 0
                    /\ args.simulation.image_type = "graySynthetic"
            THEN "background_offset"
            ELSE "none",
         !.split_attempted =
            /\ result.change_option = "split"
            /\ result.roll < split_proba(result.length)
            /\ frame_index > 0]
    /\ pc' = "chosen"
    /\ OnlyGate

\* optimization.py, lines 154-165: bacilli_split returns False at the gate, or
\* goes on to split the cell
bacilli_split ==
    /\ pc = "gate"
    /\ result' = [result EXCEPT
         !.change = IF result.roll < split_proba(result.length) THEN "none" ELSE "split",
         !.split_attempted = ~(result.roll < split_proba(result.length))]
    /\ pc' = "split_tried"
    /\ OnlyGate

NextGate == ChooseChange \/ bacilli_split

SpecGate == InitGate /\ [][NextGate]_vars

\* the part of C33 about optimize in global_optimization.py
GateOfOptimize ==
    [](pc = "chosen" =>
         /\ result.change \in { "split", "combine" } => frame_index > 0
         /\ result.split_attempted => result.roll < split_proba(result.length)
         /\ (result.length < 14 * Units.pixel \/ result.length > 45 * Units.pixel)
              => ~result.split_attempted)

\* C33: a Split or Combination is only instantiated when the sampled frame index
\* is > 0, and in every code path that proposes a split the split is attempted
\* only when the uniform roll is below split_proba(length) of the selected cell,
\* so that no split is attempted for a cell whose length is outside [14, 45].
C33_SplitGate ==
    /\ GateOfOptimize
    /\ [](pc = "split_tried" =>
            /\ result.split_attempted => result.roll < split_proba(result.length)
            /\ (result.length < 14 * Units.pixel \/ result.length > 45 * Units.pixel)
                 => ~result.split_attempted)

\* ---------------------------------------------------------------------------
\* The driver on calls whose iteration_per_cell is not a multiple of the
\* window size.
\* ---------------------------------------------------------------------------
OneIterationPerCell == 1
OddIterationsPerCell == 3

OddCalls ==
    { Call(FALSE, 1, "binary", << CellA >>, SteadyConfig, SmallStep, OneIterationPerCell),
      Call(FALSE, 1, "binary", << CellA, CellA0 >>, SteadyConfig, LargeStep,
           OddIterationsPerCell),
      Call(TRUE, 1000, "binary", << CellA >>, SteadyConfig, SmallStep, OddIterationsPerCell) }

InitOdd == \E call \in OddCalls : InitOf(call)

SpecOdd == InitOdd /\ [][Next]_vars

\* the smallest integer that is at least n / d
Ceiling(n, d) == (n + d - 1) \div d

\* the cells in the frames of the window that starts at window_start
WindowCells(lin) ==
    count_cells_in(lin, window_start, window_start + Config.window_size)

\* C34: for each window run_count = ceiling(iterations_per_cell * c / W), c the
\* number of cells in the frames of the window and W the window size; so
\* run_count >= 1 whenever the window holds a cell and iterations_per_cell >= 1.
C34_RunCountCeiling ==
    [][(pc = "window" /\ pc' = "anneal") =>
         /\ run_count' = Ceiling(args.iteration_per_cell * WindowCells(lineage'),
                                 Config.window_size)
         /\ (WindowCells(lineage') >= 1 /\ args.iteration_per_cell >= 1) => run_count' >= 1]_vars

\* what the code computes: the quotient rounded down
RunCountFloor ==
    [][(pc = "window" /\ pc' = "anneal") =>
         run_count' = (args.iteration_per_cell * WindowCells(lineage'))
                        \div Config.window_size]_vars

\* ---------------------------------------------------------------------------
\* The temperature of an iteration (optimize, lines 610-615).  Temperatures
\* are held by their logarithms, in units fine enough that every quotient
\* below is exact; geometric interpolation is linear in the logarithms.
\* ---------------------------------------------------------------------------
MaxRunCount == 4

\* the logarithms of start_temp and end_temp, start_temp > end_temp > 0
LogStarts == { 36, 72 }
LogEnds == { 0 }

WindowSizes == { 2, 3 }

\* gerp(a, b, t) = a * (b / a) ** t for t = tn / td, on logarithms
LogGerp(a, b, tn, td) == a + ((b - a) * tn) \div td

\* lines 613-614
frame_start_temp(fi) ==
    LogGerp(args.end_temp, args.start_temp, fi - window_start + 1, Config.window_size)

frame_end_temp(fi) ==
    LogGerp(args.end_temp, args.start_temp, fi - window_start, Config.window_size)

\* the frames choose_random_frame_index can return for the window
WindowFrames ==
    { fi \in 0..(window_start + Config.window_size - 1) : fi >= window_start }

InitSchedule ==
    \E auto \in BOOLEAN, W \in WindowSizes, ws \in -2..1, rc \in 1..MaxRunCount,
       start \in LogStarts, end \in LogEnds :
      /\ ws >= 1 - W
      /\ args = [Call(auto, start, "binary", << CellA >>,
                      [SteadyConfig EXCEPT !.window_size = W], SmallStep, IterationsPerCell)
                 EXCEPT !.end_temp = end]
      /\ lineage = LineageM(args.simulation)
      /\ window_start = ws
      /\ run_count = rc
      /\ iteration = 0
      /\ frame_index = NoFrame
      /\ result = [previous |-> None, temperature |-> None]
      /\ pc = "anneal"
      /\ synthimages = << >>
      /\ cellmaps = << >>
      /\ bad_count = 0
      /\ pbad_total = 0
      /\ change = Idle
      /\ applied = 0
      /\ outputs = << >>
      /\ error = ""

\* lines 608-615 for some iteration of the window and some sampled frame: the
\* temperature found, next to the one found before
TemperatureOf ==
    \E it \in 0..(run_count - 1), fi \in WindowFrames :
      /\ pc = "anneal"
      /\ iteration' = it
      /\ frame_index' = fi
      /\ IF args.in_auto_temp_schedule
         THEN /\ result' = [previous |-> result.temperature,
                            temperature |-> [frame |-> fi, iteration |-> it,
                                             log |-> args.const_temp]]
              /\ UNCHANGED << pc, error >>
         ELSE IF run_count - 1 = 0
         THEN /\ Raise("ZeroDivisionError")
              /\ UNCHANGED result
         ELSE /\ result' = [previous |-> result.temperature,
                            temperature |->
                              [frame |-> fi, iteration |-> it,
                               log |-> LogGerp(frame_start_temp(fi), frame_end_temp(fi),
                                               it, run_count - 1)]]
              /\ UNCHANGED << pc, error >>
      /\ UNCHANGED << args, lineage, synthimages, cellmaps, window_start, run_count,
                      bad_count, pbad_total, change, applied, outputs >>

\* the window ends
EndSchedule ==
    /\ pc = "anneal"
    /\ result.temperature # None
    /\ pc' = "done"
    /\ UNCHANGED << args, lineage, synthimages, cellmaps, window_start, run_count, iteration,
                    bad_count, pbad_total, frame_index, change, applied, outputs, result,
                    error >>

NextSchedule == TemperatureOf \/ EndSchedule

SpecSchedule == InitSchedule /\ [][NextSchedule]_vars

\* what C35 says of the temperatures that are computed
ScheduleShape ==
    (result.temperature # None) =>
      LET T == result.temperature
          P == result.previous
      IN  IF args.in_auto_temp_schedule THEN T.log = args.const_temp
          ELSE /\ T.iteration = 0 => T.log = frame_start_temp(T.frame)
               /\ T.iteration = run_count - 1 => T.log = frame_end_temp(T.frame)
               /\ args.end_temp <= T.log /\ T.log <= args.start_temp
               /\ (P # None /\ P.frame = T.frame /\ P.iteration <= T.iteration)
                    => P.log >= T.log
               /\ (P # None /\ P.iteration = T.iteration /\ P.frame < T.frame)
                    => P.log < T.log

\* C35: not in auto-temp mode and with start_temp > end_temp > 0, in every
\* window with run_count >= 1 a temperature is defined for every iteration; for
\* a fixed frame it is the frame's start temperature at iteration 0, the frame's
\* end temperature at the last iteration and non-increasing in between; for a
\* fixed iteration it is lower for earlier frames; all values lie between the
\* global end and start temperatures.  In auto-temp mode it is the constant.
C35_TemperatureSchedule ==
    /\ [](error # "ZeroDivisionError")
    /\ []ScheduleShape

\* what C36 says of an auto-temp call apart from the return itself
AutoTempOneWindow ==
    [](args.in_auto_temp_schedule =>
         /\ window_start = 1 - Config.window_size
         /\ outputs = << >>
         /\ pc \notin { "done" }
         /\ pc = "returned" =>
              /\ result[2] > 0
              /\ 0 <= result[1] /\ result[1] <= 1000 * result[2])

\* C36: in auto-temp mode one call of the driver processes exactly the leading
\* window (window_start = 1 - W), emits no output images and no lineage rows,
\* and for every run of that window returns pbad = (sum of the acceptance
\* probabilities of the cost-increasing valid proposals) / (their number), a
\* number in [0, 1].
C36_AutoTempReturnsPbad ==
    /\ AutoTempOneWindow
    /\ [](args.in_auto_temp_schedule => pc # "raised")

\* the objective change of the whole row on the copy costdiff draws on
LocalChange ==
    FullObjective(DrawInOrder(result.before, CostDraws(result.kind, result.old, result.new),
                              args.simulation.image_type))
      - FullObjective(result.before)

\* apply has left the rendered row as it was
RenderedUnchanged == pc = "applied" /\ synthimages[1] = result.before

\* C37: the costdiff of a Split is the local objective change plus split.cost
\* and that of a Combination the local objective change minus split.cost; so a
\* Split that leaves the rendered images unchanged has costdiff = +split.cost,
\* and a Combination that leaves them unchanged has costdiff = -split.cost and
\* is accepted unconditionally.
C37_SplitCostTerm ==
    pc \in { "costed", "applied" } =>
      /\ result.kind = "split" =>
           /\ result.costdiff = LocalChange + SplitCost
           /\ RenderedUnchanged => result.costdiff = SplitCost
      /\ result.kind = "combine" =>
           /\ result.costdiff = LocalChange - SplitCost
           /\ RenderedUnchanged =>
                /\ result.costdiff = -SplitCost
                /\ Acceptance(result.costdiff, 1, 0, 0)[1] = 1000

\* a Split was evaluated whose local objective change is not zero
C37_Witness ==
    /\ pc = "costed"
    /\ result.kind = "split"
    /\ LocalChange # 0
    /\ result.costdiff = LocalChange + SplitCost

\* the number of cells registered in frame k
CellCount(lin, k) == Cardinality(NamesIn(lin, k))

\* the step of the driver that applies the pending Change, of whatever kind
AppliesAny == pc = "decide" /\ applied' = applied + 1 /\ pc' = "anneal"

\* the change of the number of cells of the frame of the applied Change
CountGrowsBy(kind, n) ==
    Applies(kind) =>
      CellCount(lineage', change.obj.frame) = CellCount(lineage, change.obj.frame) + n

\* an applied Change leaves the names of the other frames alone
OtherFramesKeepNames ==
    [][AppliesAny =>
         \A k \in 0..(Len(lineage.frames) - 1) :
           k # change.obj.frame => NamesIn(lineage', k) = NamesIn(lineage, k)]_vars

\* every cell is registered under its own name
RegisteredUnderOwnName ==
    [](\A k \in 0..(Len(lineage.frames) - 1) : \A name \in NamesIn(lineage, k) :
         lineage.nodes[lineage.frames[k + 1].node_map[name]].cell.name = name)

\* C38: an applied Split increases the number of cells registered in its child
\* frame by exactly 1, an applied Combination decreases it by exactly 1, an
\* applied Perturbation or BackgroundOffset leaves it unchanged; the names
\* registered in every other frame are unchanged, and in every frame each
\* registered name is the name of the cell registered under it.
C38_CellCounts ==
    /\ [][/\ CountGrowsBy("split", 1)
          /\ CountGrowsBy("combine", -1)
          /\ CountGrowsBy("perturbation", 0)
          /\ CountGrowsBy("background_offset", 0)]_vars
    /\ OtherFramesKeepNames
    /\ RegisteredUnderOwnName

\* what there is of frame f: its synth image, its cell map, the cells registered
\* in it by name (the rows save_output writes for it) and its simulation config
FrameView(lin, synths, maps, f) ==
    [synth |-> synths[f + 1],
     cellmap |-> maps[f + 1],
     cells |-> [name \in NamesIn(lin, f) |->
                  lin.nodes[lin.frames[f + 1].node_map[name]].cell],
     simulation_config |-> lin.frames[f + 1].simulation_config]

\* the frames whose output was emitted: the window has moved past them
Emitted == { f \in 0..(window_start - 1) : f < Len(lineage.frames) /\ f < Len(synthimages) }

\* no step changes a frame whose output was emitted
EmittedFramesFrozen ==
    [][\A f \in Emitted :
         FrameView(lineage', synthimages', cellmaps', f)
           = FrameView(lineage, synthimages, cellmaps, f)]_vars

\* the cells registered in frame 0 keep their names
FirstFrameKeepsNames == [][NamesIn(lineage', 0) = NamesIn(lineage, 0)]_vars

\* the synth image of an emitted frame shows the cells registered in the frame
RowsMatchRendered ==
    [](\A f \in Emitted :
         synthimages[f + 1] =
           generate_synthetic_image(lineage, FrameNodes(lineage.frames[f + 1]),
                                    lineage.frames[f + 1].simulation_config).synth)

\* C39: once the driver has emitted the output for frame f, no later iteration
\* changes frame f's synth image, cell map, set of registered names, cell
\* parameters or background color, so the lineage rows written at the end of the
\* run for frame f describe exactly the cells rendered in frame f's emitted
\* images; and the set of names of frame 0 never changes.
C39_EmittedFramesFrozen ==
    /\ EmittedFramesFrozen
    /\ FirstFrameKeepsNames
    /\ RowsMatchRendered

\* the nodes with exactly one child, each with its child
SingleChildPairs(nodes) ==
    { << nodes[id].cell, nodes[nodes[id].children[1]].cell >> :
        id \in { n \in DOMAIN nodes : Len(nodes[n].children) = 1 } }

\* 0 lies strictly between min_growth and max_growth
GrowthAdmitsZero == Config.minGrowth < 0 /\ 0 < Config.maxGrowth

\* C40: provided 0 lies strictly between min_growth and max_growth, in every
\* state reachable by the driver every node with exactly one child forms with
\* that child a (prior, current) pair that check_constraints accepts.
C40_PersistencePairs ==
    [](GrowthAdmitsZero =>
         \A pr \in SingleChildPairs(lineage.nodes) :
           check_constraints(Config, ImageShape, << >>, << pr >>))

====
